---------------------------- MODULE Spec2Model ----------------------------
(***************************************************************************)
(* Bantu-OS: the AgentManager dispatch loop (agents/agent_manager.py) and  *)
(* the in-memory vector store behind Memory (memory/vector_db.py,          *)
(* memory/memory.py).                                                      *)
(*                                                                         *)
(* A Python str is a sequence of characters.  The alphabet used here is a  *)
(* set of lexemes, none of which is a concatenation of others, so equality *)
(* of sequences is equality of the strings they spell: punctuation and the *)
(* space are lexemes of their own, a word is one lexeme.                   *)
(***************************************************************************)
EXTENDS Integers, Sequences, FiniteSets, TLC

(***************************************************************************)
(* Bounds of the model.                                                    *)
(***************************************************************************)
\* the number of characters of prose around the JSON text of a model output
MaxPad == 1
\* the number of records the store is filled to
MaxRecords == 3
\* the largest top_k asked of a search
MaxK == 3
\* the number of turns of process_input that run interleaved
MaxTurns == 2
\* the number of steps of other callers while one call is suspended
MaxMeanwhile == 1

(***************************************************************************)
(* Python values as json.loads produces them.  An object keeps its keys in *)
(* the order of their first occurrence (dict order).                       *)
(***************************************************************************)
JStr(s) == [t |-> "str", s |-> s]
JNum(n) == [t |-> "num", n |-> n]
JNull == [t |-> "null"]
JBool(b) == [t |-> "bool", b |-> b]
JList(l) == [t |-> "list", l |-> l]
JObj(o) == [t |-> "obj", o |-> o]

Word(w) == JStr(<<w>>)

IsDict(v) == v.t = "obj"

\* key in dict
ObjHas(v, k) == \E i \in 1..Len(v.o) : v.o[i][1] = k

\* dict[key], for a key of the dict
ObjGet(v, k) == v.o[CHOOSE i \in 1..Len(v.o) : v.o[i][1] = k][2]

\* dict.get(key, default)
ObjGetDefault(v, k, default) == IF ObjHas(v, k) THEN ObjGet(v, k) ELSE default

ObjKeys(v) == {v.o[i][1] : i \in 1..Len(v.o)}

\* d[k] = x on a dict built pair by pair: a key seen before keeps its place
ObjPut(o, k, x) ==
    IF \E i \in 1..Len(o) : o[i][1] = k
    THEN [i \in 1..Len(o) |-> IF o[i][1] = k THEN <<k, x>> ELSE o[i]]
    ELSE Append(o, <<k, x>>)

\* bool(v)
PyTruthy(v) ==
    CASE v.t = "str" -> v.s # <<>>
      [] v.t = "num" -> v.n # 0
      [] v.t = "null" -> FALSE
      [] v.t = "bool" -> v.b
      [] v.t = "list" -> v.l # <<>>
      [] v.t = "obj" -> v.o # <<>>

\* hash(v) succeeds: lists and dicts are unhashable
PyHashable(v) == v.t \notin {"list", "obj"}

Digits == <<"0", "1", "2", "3", "4", "5", "6", "7", "8", "9">>

RECURSIVE IntStr(_)
\* str(n) of a natural number
IntStr(n) == IF n < 10 THEN <<Digits[n + 1]>> ELSE IntStr(n \div 10) \o <<Digits[(n % 10) + 1]>>

RECURSIVE PyRepr(_)
RECURSIVE ReprItems(_)
RECURSIVE ReprPairs(_)
\* repr(v); no string of the alphabet holds a quote or a backslash
PyRepr(v) ==
    CASE v.t = "str" -> <<"'">> \o v.s \o <<"'">>
      [] v.t = "num" -> IntStr(v.n)
      [] v.t = "null" -> <<"None">>
      [] v.t = "bool" -> IF v.b THEN <<"True">> ELSE <<"False">>
      [] v.t = "list" -> <<"[">> \o ReprItems(v.l) \o <<"]">>
      [] v.t = "obj" -> <<"{">> \o ReprPairs(v.o) \o <<"}">>

ReprItems(l) ==
    IF l = <<>> THEN <<>>
    ELSE IF Len(l) = 1 THEN PyRepr(l[1])
    ELSE PyRepr(l[1]) \o <<",", " ">> \o ReprItems(Tail(l))

ReprPairs(o) ==
    IF o = <<>> THEN <<>>
    ELSE LET one == PyRepr(JStr(o[1][1])) \o <<":", " ">> \o PyRepr(o[1][2])
         IN  IF Len(o) = 1 THEN one ELSE one \o <<",", " ">> \o ReprPairs(Tail(o))

\* str(v)
PyStr(v) == IF v.t = "str" THEN v.s ELSE PyRepr(v)

(***************************************************************************)
(* str.strip(), str.find, str.rfind                                        *)
(***************************************************************************)
IsSpace(c) == c = " "

RECURSIVE LStrip(_)
LStrip(s) == IF s # <<>> /\ IsSpace(Head(s)) THEN LStrip(Tail(s)) ELSE s

RECURSIVE RStrip(_)
RStrip(s) == IF s # <<>> /\ IsSpace(s[Len(s)]) THEN RStrip(SubSeq(s, 1, Len(s) - 1)) ELSE s

Strip(s) == RStrip(LStrip(s))

\* text.find(c): the first index (from 1), 0 for Python's -1
Find(s, c) == IF \E i \in 1..Len(s) : s[i] = c
              THEN CHOOSE i \in 1..Len(s) : s[i] = c /\ \A j \in 1..(i - 1) : s[j] # c
              ELSE 0

\* text.rfind(c): the last index (from 1), 0 for Python's -1
RFind(s, c) == IF \E i \in 1..Len(s) : s[i] = c
               THEN CHOOSE i \in 1..Len(s) : s[i] = c /\ \A j \in (i + 1)..Len(s) : s[j] # c
               ELSE 0

(***************************************************************************)
(* json.loads: a recursive-descent scanner.  A parse returns [ok, v, i]:   *)
(* whether a value was read, the value, and the index after it.            *)
(***************************************************************************)
Fail == [ok |-> FALSE, v |-> JNull, i |-> 0]
Ok(v, i) == [ok |-> TRUE, v |-> v, i |-> i]

RECURSIVE SkipWs(_, _)
SkipWs(s, i) == IF i <= Len(s) /\ IsSpace(s[i]) THEN SkipWs(s, i + 1) ELSE i

IsDigit(c) == \E d \in 1..10 : Digits[d] = c
DigitVal(c) == (CHOOSE d \in 1..10 : Digits[d] = c) - 1

RECURSIVE ScanDigits(_, _, _)
\* the maximal run of digits from i, with the value read so far
ScanDigits(s, i, acc) ==
    IF i <= Len(s) /\ IsDigit(s[i]) THEN ScanDigits(s, i + 1, 10 * acc + DigitVal(s[i]))
    ELSE Ok(JNum(acc), i)

\* a number: 0, or a run of digits that does not start with 0
ScanNumber(s, i) == IF s[i] = "0" THEN Ok(JNum(0), i + 1) ELSE ScanDigits(s, i, 0)

\* a string: from the quote at i to the next quote
ScanString(s, i) ==
    IF \E j \in (i + 1)..Len(s) : s[j] = "\""
    THEN LET j == CHOOSE j \in (i + 1)..Len(s) :
                      s[j] = "\"" /\ \A k \in (i + 1)..(j - 1) : s[k] # "\""
         IN  Ok(JStr(SubSeq(s, i + 1, j - 1)), j + 1)
    ELSE Fail

RECURSIVE ScanValue(_, _)
RECURSIVE ScanMembers(_, _, _)
RECURSIVE ScanElements(_, _, _)

\* scan_once(s, i)
ScanValue(s, i) ==
    IF i > Len(s) THEN Fail
    ELSE CASE s[i] = "\"" -> ScanString(s, i)
           [] s[i] = "{" ->
                LET j == SkipWs(s, i + 1)
                IN  IF j <= Len(s) /\ s[j] = "}" THEN Ok(JObj(<<>>), j + 1)
                    ELSE ScanMembers(s, j, <<>>)
           [] s[i] = "[" ->
                LET j == SkipWs(s, i + 1)
                IN  IF j <= Len(s) /\ s[j] = "]" THEN Ok(JList(<<>>), j + 1)
                    ELSE ScanElements(s, j, <<>>)
           [] s[i] = "null" -> Ok(JNull, i + 1)
           [] s[i] = "true" -> Ok(JBool(TRUE), i + 1)
           [] s[i] = "false" -> Ok(JBool(FALSE), i + 1)
           [] IsDigit(s[i]) -> ScanNumber(s, i)
           [] OTHER -> Fail

\* JSONObject: "key" : value pairs from i, after '{' or ','
ScanMembers(s, i, acc) ==
    IF i > Len(s) \/ s[i] # "\"" THEN Fail
    ELSE LET key == ScanString(s, i)
         IN  IF ~key.ok THEN Fail
             ELSE LET c == SkipWs(s, key.i)
                  IN  IF c > Len(s) \/ s[c] # ":" THEN Fail
                      ELSE LET val == ScanValue(s, SkipWs(s, c + 1))
                           IN  IF ~val.ok THEN Fail
                               ELSE LET e == SkipWs(s, val.i)
                                        o == ObjPut(acc, key.v.s, val.v)
                                    IN  IF e > Len(s) THEN Fail
                                        ELSE IF s[e] = "}" THEN Ok(JObj(o), e + 1)
                                        ELSE IF s[e] = "," THEN ScanMembers(s, SkipWs(s, e + 1), o)
                                        ELSE Fail

\* JSONArray: values from i, after '[' or ','
ScanElements(s, i, acc) ==
    LET val == ScanValue(s, i)
    IN  IF ~val.ok THEN Fail
        ELSE LET e == SkipWs(s, val.i)
                 l == Append(acc, val.v)
             IN  IF e > Len(s) THEN Fail
                 ELSE IF s[e] = "]" THEN Ok(JList(l), e + 1)
                 ELSE IF s[e] = "," THEN ScanElements(s, SkipWs(s, e + 1), l)
                 ELSE Fail

\* json.loads(s): one value with white space around it and nothing else;
\* ok = FALSE stands for the JSONDecodeError
JsonLoads(s) ==
    LET r == ScanValue(s, SkipWs(s, 1))
    IN  IF r.ok /\ SkipWs(s, r.i) = Len(s) + 1 THEN r ELSE Fail

(***************************************************************************)
(* json.dumps with its default separators                                  *)
(***************************************************************************)
RECURSIVE JsonDumps(_)
RECURSIVE DumpItems(_)
RECURSIVE DumpPairs(_)
JsonDumps(v) ==
    CASE v.t = "str" -> <<"\"">> \o v.s \o <<"\"">>
      [] v.t = "num" -> IntStr(v.n)
      [] v.t = "null" -> <<"null">>
      [] v.t = "bool" -> IF v.b THEN <<"true">> ELSE <<"false">>
      [] v.t = "list" -> <<"[">> \o DumpItems(v.l) \o <<"]">>
      [] v.t = "obj" -> <<"{">> \o DumpPairs(v.o) \o <<"}">>

DumpItems(l) ==
    IF l = <<>> THEN <<>>
    ELSE IF Len(l) = 1 THEN JsonDumps(l[1])
    ELSE JsonDumps(l[1]) \o <<",", " ">> \o DumpItems(Tail(l))

DumpPairs(o) ==
    IF o = <<>> THEN <<>>
    ELSE LET one == JsonDumps(JStr(o[1][1])) \o <<":", " ">> \o JsonDumps(o[1][2])
         IN  IF Len(o) = 1 THEN one ELSE one \o <<",", " ">> \o DumpPairs(Tail(o))


(***************************************************************************)
(* Tools: plain callables with a keyword signature: the three callables    *)
(* the tests of AgentManager register, and list_dir of tools/filesystem.py *)
(* run where no directory "hi" exists.                                     *)
(***************************************************************************)
Callables == {"needs_a", "boom", "dummy", "list_dir"}

\* the keyword parameters of each callable (all of them required)
Params(fn) ==
    CASE fn = "needs_a" -> {<<"a">>}
      [] fn = "boom" -> {}
      [] fn = "dummy" -> {}
      [] fn = "list_dir" -> {<<"path">>}

Returned(v) == [kind |-> "value", v |-> v, detail |-> <<>>]
Raised(exc, detail) == [kind |-> exc, v |-> JNull, detail |-> detail]

\* the text of the TypeError Python raises for a call that does not fit the
\* signature; it depends on the interpreter and is kept as one lexeme
BindError == <<"(TypeError)">>

\* list_dir(path): Path(path) raises TypeError for a path that is no string;
\* the empty path is the working directory, taken to be empty
ListDir(path) ==
    IF path.t # "str" THEN Raised("TypeError", <<"(TypeError of Path)">>)
    ELSE IF path.s = <<>> THEN Returned(JList(<<>>))
    ELSE Raised("FileNotFoundError", <<"Not", " ", "a", " ", "directory", ":", " ">> \o path.s)

\* the body of the callable, run with its parameters bound
Body(fn, kwargs) ==
    CASE fn = "needs_a" -> Returned(ObjGet(kwargs, <<"a">>))
      [] fn = "boom" -> Raised("RuntimeError", <<"kaboom">>)
      [] fn = "dummy" -> Returned(Word("ok"))
      [] fn = "list_dir" -> ListDir(ObjGet(kwargs, <<"path">>))

\* fn(**args) binds: args is a mapping and its keys are the parameters of fn
Binds(fn, args) == IsDict(args) /\ ObjKeys(args) = Params(fn)

\* fn(**args): a TypeError when the call does not bind, else the body
CallTool(fn, args) ==
    IF ~Binds(fn, args) THEN Raised("TypeError", BindError) ELSE Body(fn, args)

(***************************************************************************)
(* AgentManager                                                            *)
(***************************************************************************)
\* isinstance(obj, dict) and "action" in obj
IsAction(r) == r.ok /\ IsDict(r.v) /\ ObjHas(r.v, <<"action">>)

NoAction == [found |-> FALSE, obj |-> JNull]
Action(obj) == [found |-> TRUE, obj |-> obj]

\* _safe_parse_action with the first '}' taken for the last one
SafeParseActionFirstClose(text) ==
    LET t == Strip(text)
        whole == JsonLoads(t)
        start == Find(t, "{")
        end == Find(t, "}")
    IN  IF IsAction(whole) THEN Action(whole.v)
        ELSE IF start # 0 /\ end # 0 /\ end > start
             THEN LET snippet == JsonLoads(SubSeq(t, start, end))
                  IN  IF IsAction(snippet) THEN Action(snippet.v) ELSE NoAction
             ELSE NoAction

\* AgentManager._safe_parse_action(text)
SafeParseAction(text) ==
    LET t == Strip(text)
        whole == JsonLoads(t)
        start == Find(t, "{")
        end == RFind(t, "}")
    IN  IF IsAction(whole) THEN Action(whole.v)
        ELSE IF start # 0 /\ end # 0 /\ end > start
             THEN LET snippet == JsonLoads(SubSeq(t, start, end))
                  IN  IF IsAction(snippet) THEN Action(snippet.v) ELSE NoAction
             ELSE NoAction

\* what execute ends with: a returned text or an exception, and the calls
\* of tools it made
Return(text) == [kind |-> "return", text |-> text, calls |-> <<>>]
Raise(exc) == [kind |-> "raise", text |-> <<exc>>, calls |-> <<>>]

\* the call fn(**args) was made; its body ran when the call bound
Called(r, fn, args) ==
    [r EXCEPT !.calls = <<[fn |-> fn, args |-> args, ran |-> Binds(fn, args)]>>]

\* the fallback with the text trimmed as _safe_parse_action trims it
FallbackTrimmed(llm_text) == Return(Strip(llm_text))

\* if not action: return llm_text
Fallback(llm_text) == Return(llm_text)

\* return str(args.get("message", ""))
Respond(args) ==
    IF IsDict(args) THEN Return(PyStr(ObjGetDefault(args, <<"message">>, JStr(<<>>))))
    ELSE Raise("AttributeError")

\* the message with the name formatted by repr
UnknownToolRepr(name) == <<"Unknown", " ", "tool", ":", " ", "'">> \o name \o <<"'">>

\* f"Unknown tool: {name}"
UnknownTool(name) == <<"Unknown", " ", "tool", ":", " ">> \o name

\* f"Tool '{name}' argument error: "
ToolArgumentError(name) ==
    <<"Tool", " ", "'">> \o name \o <<"'", " ", "argument", " ", "error", ":", " ">>

\* f"Tool '{name}' failed: "
ToolFailed(name) == <<"Tool", " ", "'">> \o name \o <<"'", " ", "failed", ":", " ">>

\* action.get("args") or {}
ArgsOf(obj) ==
    LET a == ObjGetDefault(obj, <<"args">>, JNull)
    IN  IF PyTruthy(a) THEN a ELSE JObj(<<>>)

\* name in self.tools, for a hashable name
InRegistry(name, registry) == name.t = "str" /\ name.s \in DOMAIN registry

\* the try block with the TypeError left to the handler of Exception
DispatchNoTypeError(name, args, registry) ==
    LET fn == registry[name.s]
        r == CallTool(fn, args)
    IN  Called(IF r.kind = "value" THEN Return(PyStr(r.v))
               ELSE Return(ToolFailed(PyStr(name)) \o r.detail),
               fn, args)

\* the try block of execute: the call of the tool and its three ways out
Dispatch(name, args, registry) ==
    LET fn == registry[name.s]
        r == CallTool(fn, args)
    IN  Called(CASE r.kind = "value" -> Return(PyStr(r.v))
                 [] r.kind = "TypeError" -> Return(ToolArgumentError(PyStr(name)) \o r.detail)
                 [] OTHER -> Return(ToolFailed(PyStr(name)) \o r.detail),
               fn, args)

\* execute with the registry looked up before the reserved action "respond"
ExecuteRegistryFirst(llm_text, registry) ==
    LET action == SafeParseAction(llm_text)
    IN  IF ~action.found THEN Fallback(llm_text)
        ELSE LET name == ObjGetDefault(action.obj, <<"action">>, JNull)
                 args == ArgsOf(action.obj)
             IN  IF ~PyHashable(name) THEN Raise("TypeError")
                 ELSE IF InRegistry(name, registry) THEN Dispatch(name, args, registry)
                 ELSE IF name = Word("respond") THEN Respond(args)
                 ELSE Return(UnknownTool(PyStr(name)))

\* AgentManager.execute from the return of kernel.process_input on
Execute(llm_text, registry) ==
    LET action == SafeParseAction(llm_text)
    IN  IF ~action.found THEN Fallback(llm_text)
        ELSE LET name == ObjGetDefault(action.obj, <<"action">>, JNull)
                 args == ArgsOf(action.obj)
             IN  IF name = Word("respond") THEN Respond(args)
                 ELSE IF ~PyHashable(name) THEN Raise("TypeError")
                 ELSE IF ~InRegistry(name, registry) THEN Return(UnknownTool(PyStr(name)))
                 ELSE Dispatch(name, args, registry)

\* self.tools[name] = fn that keeps an earlier registration (setdefault)
RegistryPutIfAbsent(registry, name, fn) ==
    [n \in DOMAIN registry \cup {name} |-> IF n \in DOMAIN registry THEN registry[n] ELSE fn]

\* self.tools[name] = fn
RegistryPut(registry, name, fn) ==
    [n \in DOMAIN registry \cup {name} |-> IF n = name THEN fn ELSE registry[n]]

\* if name in self.tools: del self.tools[name]
RegistryDel(registry, name) ==
    [n \in DOMAIN registry \ {name} |-> registry[n]]


(***************************************************************************)
(* The texts the language model may answer with: the JSON text of an       *)
(* action plan (json.dumps), of another JSON value, or a broken text, with *)
(* up to MaxPad characters of prose and braces around it.                  *)
(***************************************************************************)
Pair(k, v) == <<<<k>>, v>>

ActionVals ==
    {Word("respond"), Word("calc"), Word("nosuch"), JNull, JNum(1), JList(<<Word("calc")>>)}

ArgVals ==
    {JObj(<<>>), JObj(<<Pair("message", Word("hi"))>>), JObj(<<Pair("a", Word("hi"))>>),
     JObj(<<Pair("b", JNum(1))>>), JNull, JList(<<JNum(1)>>), Word("hi")}

Plans ==
    {JObj(<<Pair("action", a)>>) : a \in ActionVals}
    \cup {JObj(<<Pair("action", a), Pair("args", x)>>) : a \in ActionVals, x \in ArgVals}
    \cup {JObj(<<Pair("thought", Word("hi")), Pair("action", Word("calc")),
                 Pair("args", JObj(<<Pair("a", JNum(10))>>))>>),
          JObj(<<Pair("action", Word("respond")),
                 Pair("args", JObj(<<Pair("message", JStr(<<" ", "hi", " ", "}">>))>>))>>),
          JObj(<<Pair("action", Word("respond")),
                 Pair("args", JObj(<<Pair("message", JNum(1))>>))>>),
          JObj(<<Pair("action", Word("calc")), Pair("args", JObj(<<Pair("path", JNum(5))>>))>>),
          JObj(<<Pair("action", Word("calc")), Pair("args", JObj(<<Pair("path", Word("hi"))>>))>>)}

NonPlans ==
    {JObj(<<>>), JObj(<<Pair("args", JObj(<<>>))>>), JList(<<>>), Word("action"), JNum(1),
     JList(<<JObj(<<Pair("action", Word("respond")),
                    Pair("args", JObj(<<Pair("message", Word("hi"))>>))>>)>>)}

BrokenTexts ==
    {<<>>, <<"noise">>, <<"noise", " ", "noise">>,
     <<"{", "noise", "}">>,
     <<"{", "\"", "action", "\"", ":", "\"", "calc", "\"">>,
     <<"{", "action", ":", "respond", "}">>,
     <<"{", "\"", "action", "\"", ":", "\"", "calc", "\"", "}", " ",
       "{", "\"", "action", "\"", ":", "\"", "nosuch", "\"", "}">>,
     <<"{", "\"", "action", "\"", ":", "\"", "calc", "\"", ",", "}">>,
     <<"{", "\"", "action", "\"", ":", "\"", "calc", "\"", ",",
       "\"", "action", "\"", ":", "\"", "respond", "\"", "}">>,
     <<"{", " ", "\"", "action", "\"", " ", ":", " ", "0", "1", "}">>}

BeforeChars == {" ", "noise", "{"}
AfterChars == {" ", "noise", "}"}

SeqsOf(S, n) == UNION {[1..m -> S] : m \in 0..n}

\* what stands before and after the JSON text: up to MaxPad characters in
\* all, or prose on both sides
Pads ==
    {p \in SeqsOf(BeforeChars, MaxPad) \X SeqsOf(AfterChars, MaxPad) :
        Len(p[1]) + Len(p[2]) <= MaxPad}
    \cup {<<<<"noise", " ">>, <<" ", "noise">>>>}

\* a model output: the text pre \o core \o post; plan is the value whose
\* json.dumps is the core, when the core is one
ModelOutputs ==
    {[pre |-> p[1], core |-> JsonDumps(v), post |-> p[2], isPlan |-> TRUE, plan |-> v] :
        p \in Pads, v \in Plans}
    \cup {[pre |-> p[1], core |-> JsonDumps(v), post |-> p[2], isPlan |-> FALSE, plan |-> JNull] :
            p \in Pads, v \in NonPlans}
    \cup {[pre |-> p[1], core |-> c, post |-> p[2], isPlan |-> FALSE, plan |-> JNull] :
            p \in Pads, c \in BrokenTexts}

TextOf(m) == m.pre \o m.core \o m.post

NoOutput == [pre |-> <<>>, core |-> <<>>, post |-> <<>>, isPlan |-> FALSE, plan |-> JNull]

(***************************************************************************)
(* State                                                                   *)
(***************************************************************************)
VARIABLES
    tools,      \* AgentManager.tools: name -> callable
    regLog,     \* per name: the callable of the last register_tool (or of the
                \* constructor), "unregistered" after unregister_tool, else "never"
    pc,         \* where the turn is: "idle", "awaiting" (in kernel.process_input), "done"
    sent,       \* the model output of this turn, as it was put together
    llm_text,   \* what kernel.process_input returned in this turn
    outcome,    \* what execute ended with
    invoked     \* the calls of tools execute made in this turn

agentVars == <<tools, regLog, pc, sent, llm_text, outcome, invoked>>

VARIABLES
    records,      \* VectorDB.records, in dict order
    insertOrder,  \* the ids of the stored records, oldest record first
    issued,       \* the ids that store has returned so far
    memOp         \* the last call on the memory: its arguments and its result

memVars == <<records, insertOrder, issued, memOp>>

VARIABLES
    kmemory,     \* Kernel.memory: "None" or "set"
    embeddings,  \* Memory.embeddings: "None" or "set"
    active,      \* LLMManager.active_model names a loaded model
    kpc,         \* where the call is: "idle", the await it is suspended at, "ended"
    kcall,       \* the call in progress: who called and with what
    messages,    \* the messages handed to llm.generate in this call
    kout,        \* what the call ended with
    embedLog,    \* the texts handed to the embedder during the call
    other        \* a store_text of another caller: where it is, its text and
                 \* the embedder whose answer it awaits

kernelVars == <<kmemory, embeddings, active, kpc, kcall, messages, kout, embedLog, other>>

VARIABLES
    events,      \* the rows of the table events in events.db
    schedOp      \* the last use of scheduling_agent by a caller, and how it ended

schedVars == <<events, schedOp>>

VARIABLES
    turns        \* the interleaved turns of process_input: where each one is

VARIABLES
    models,       \* the keys of LLMManager.models
    active_model, \* LLMManager.active_model: None or a name
    llmOp,        \* the last call of the LLMManager and how it ended
    awaited       \* the model whose provider a generate awaits, None when none does

llmVars == <<models, active_model, llmOp, awaited>>

vars == <<tools, regLog, pc, sent, llm_text, outcome, invoked, records, insertOrder, issued, memOp,
          kmemory, embeddings, active, kpc, kcall, messages, kout, embedLog, other, events,
          schedOp,
          turns, models, active_model, llmOp, awaited>>

\* the names tools are registered under
RegNames == {<<"respond">>, <<"calc">>}

EmptyRegistry == [n \in {} |-> "dummy"]

NoOutcome == [kind |-> "none", text |-> <<>>]

Outcome(r) == [kind |-> r.kind, text |-> r.text]

\* AgentManager(tools=None) and AgentManager(tools={"calc": needs_a})
InitAgent ==
    /\ tools \in {EmptyRegistry, [n \in {<<"calc">>} |-> "needs_a"]}
    /\ regLog = [n \in RegNames |-> IF n \in DOMAIN tools THEN tools[n] ELSE "never"]
    /\ pc = "idle"
    /\ sent = NoOutput
    /\ llm_text = <<>>
    /\ outcome = NoOutcome
    /\ invoked = <<>>

\* AgentManager.register_tool(name, fn)
RegisterTool(name, fn) ==
    /\ pc \in {"idle", "awaiting"}
    /\ tools' = RegistryPut(tools, name, fn)
    /\ regLog' = [regLog EXCEPT ![name] = fn]
    /\ UNCHANGED <<pc, sent, llm_text, outcome, invoked>>

\* AgentManager.unregister_tool(name)
UnregisterTool(name) ==
    /\ pc \in {"idle", "awaiting"}
    /\ tools' = RegistryDel(tools, name)
    /\ regLog' = [regLog EXCEPT ![name] = "unregistered"]
    /\ UNCHANGED <<pc, sent, llm_text, outcome, invoked>>

\* execute(user_input) up to its await of kernel.process_input
CallExecute ==
    /\ pc = "idle"
    /\ pc' = "awaiting"
    /\ UNCHANGED <<tools, regLog, sent, llm_text, outcome, invoked>>

\* kernel.process_input returns the text of m; execute runs to its end
KernelReturns(m) ==
    LET r == Execute(TextOf(m), tools)
    IN  /\ pc = "awaiting"
        /\ pc' = "done"
        /\ sent' = m
        /\ llm_text' = TextOf(m)
        /\ outcome' = Outcome(r)
        /\ invoked' = r.calls
        /\ UNCHANGED <<tools, regLog>>

\* the caller takes the result of the turn
TurnEnds ==
    /\ pc = "done"
    /\ pc' = "idle"
    /\ sent' = NoOutput
    /\ llm_text' = <<>>
    /\ outcome' = NoOutcome
    /\ invoked' = <<>>
    /\ UNCHANGED <<tools, regLog>>

NextAgent ==
    \/ \E name \in RegNames, fn \in Callables : RegisterTool(name, fn)
    \/ \E name \in RegNames : UnregisterTool(name)
    \/ CallExecute
    \/ \E m \in ModelOutputs : KernelReturns(m)
    \/ TurnEnds



(***************************************************************************)
(* VectorDB and Memory.  A record id "vec_<n>" is kept as the number n.    *)
(* self.records is a dict: a sequence of records in dict order, in which a *)
(* key that is assigned again keeps its place.                             *)
(***************************************************************************)
\* Memory.dim and VectorDB.dim
Dim == 2

Dot(u, v) == LET RECURSIVE Sum(_)
                 Sum(i) == IF i = 0 THEN 0 ELSE u[i] * v[i] + Sum(i - 1)
             IN  Sum(Len(u))

\* np.linalg.norm(v) squared
NormSq(v) == Dot(v, v)

\* np.dot(q, v) / (norm(q) * norm(v)), kept exactly: the value is
\* sign(num) * sqrt(|num| / den) with num = sign(q.v) * (q.v)^2 and
\* den = |q|^2 * |v|^2; a zero norm makes the quotient 0/0, which is NaN
Cosine(q, v) ==
    LET d == Dot(q, v)
        den == NormSq(q) * NormSq(v)
    IN  [nan |-> den = 0, num |-> IF d < 0 THEN -(d * d) ELSE d * d, den |-> den]

\* x < y on floats: False as soon as either is NaN
FloatLt(x, y) == ~x.nan /\ ~y.nan /\ x.num * y.den < y.num * x.den

\* x >= y on floats
FloatGe(x, y) == ~x.nan /\ ~y.nan /\ x.num * y.den >= y.num * x.den

\* x == y on floats
FloatEq(x, y) == ~x.nan /\ ~y.nan /\ x.num * y.den = y.num * x.den

Reverse(a) == [i \in 1..Len(a) |-> a[Len(a) + 1 - i]]

RECURSIVE RunEnd(_, _, _)
\* count_run: the length of the run that starts the list, which is strictly
\* descending (desc) or non-descending
RunEnd(a, i, desc) ==
    IF i <= Len(a) /\ (FloatLt(a[i].similarity, a[i - 1].similarity) <=> desc)
    THEN RunEnd(a, i + 1, desc)
    ELSE i - 1

RECURSIVE Bisect(_, _, _, _)
\* binarysort's search for the place of pivot in a[l..r-1]
Bisect(a, pivot, l, r) ==
    IF l < r
    THEN LET p == l + ((r - l) \div 2)
         IN  IF FloatLt(pivot.similarity, a[p].similarity) THEN Bisect(a, pivot, l, p)
             ELSE Bisect(a, pivot, p + 1, r)
    ELSE l

RECURSIVE BinarySort(_, _)
\* binarysort: a[1..start-1] is sorted; insert a[start], a[start+1], ...
BinarySort(a, start) ==
    IF start > Len(a) THEN a
    ELSE LET l == Bisect(a, a[start], 1, start)
         IN  BinarySort(SubSeq(a, 1, l - 1) \o <<a[start]>> \o SubSeq(a, l, start - 1)
                            \o SubSeq(a, start + 1, Len(a)),
                        start + 1)

\* list.sort() of a list shorter than 64: the first run, reversed when it
\* descends, then binary insertion of the rest
ListSort(a) ==
    IF Len(a) < 2 THEN a
    ELSE LET desc == FloatLt(a[2].similarity, a[1].similarity)
             n == RunEnd(a, 3, desc)
             run == IF desc THEN Reverse(SubSeq(a, 1, n)) \o SubSeq(a, n + 1, Len(a)) ELSE a
         IN  BinarySort(run, n + 1)

\* similarities.sort(key=lambda x: x[1], reverse=True): reverse, sort, reverse
SortBySimilarity(a) == Reverse(ListSort(Reverse(a)))

\* a[:k] for k >= 0
Take(a, k) == SubSeq(a, 1, IF k < Len(a) THEN k ELSE Len(a))

\* VectorDB.search(query_vector, top_k), for a query of the right dimension
Search(recs, q, k) ==
    LET similarities == [i \in 1..Len(recs) |->
                            [id |-> recs[i].id, similarity |-> Cosine(q, recs[i].vector),
                             metadata |-> recs[i].metadata, text |-> recs[i].text]]
    IN  Take(SortBySimilarity(similarities), k)

\* an id that repeats the one of the record stored last
NextIdOfLast(recs) == IF recs = <<>> THEN 1 ELSE recs[Len(recs)].id

\* the id VectorDB.add assigns: f"vec_{len(self.records) + 1}"
NextId(recs) == Len(recs) + 1

\* self.records[record_id] = VectorRecord(...)
Add(recs, vector, metadata, text) ==
    LET rec == [id |-> NextId(recs), vector |-> vector, metadata |-> metadata, text |-> text]
    IN  IF \E i \in 1..Len(recs) : recs[i].id = rec.id
        THEN [i \in 1..Len(recs) |-> IF recs[i].id = rec.id THEN rec ELSE recs[i]]
        ELSE Append(recs, rec)

\* del self.records[record_id]
Remove(recs, id) == SelectSeq(recs, LAMBDA r : r.id # id)

HasId(recs, id) == \E i \in 1..Len(recs) : recs[i].id = id

\* VectorDB.add(vector, metadata, text), reached through VectorDBStore.add:
\* [ok, id, records]; ok = FALSE stands for the ValueError
DbAdd(recs, vector, metadata, text) ==
    IF Len(vector) # Dim THEN [ok |-> FALSE, id |-> 0, records |-> recs]
    ELSE [ok |-> TRUE, id |-> NextId(recs), records |-> Add(recs, vector, metadata, text)]

\* metadata or {}
MetadataOrEmpty(metadata) == IF metadata = "None" THEN "{}" ELSE metadata

\* a store_memory that hands the embedding to the store before checking it
StoreThenCheck(recs, query, embedding, metadata) ==
    [ok |-> Len(embedding) = Dim, id |-> IF Len(embedding) = Dim THEN NextId(recs) ELSE 0,
     records |-> Add(recs, embedding, MetadataOrEmpty(metadata), query)]

\* Memory.store_memory(query, embedding, metadata): [ok, id, records]
StoreMemory(recs, query, embedding, metadata) ==
    IF Len(embedding) # Dim THEN [ok |-> FALSE, id |-> 0, records |-> recs]
    ELSE DbAdd(recs, embedding, MetadataOrEmpty(metadata), query)

\* a delete that reports the record but leaves it stored
DeleteKeepsRecord(recs, id) == [ok |-> HasId(recs, id), records |-> recs]

\* VectorDB.delete(record_id): [ok, records]
Delete(recs, id) ==
    IF HasId(recs, id) THEN [ok |-> TRUE, records |-> Remove(recs, id)]
    ELSE [ok |-> FALSE, records |-> recs]


(***************************************************************************)
(* agents/scheduling_agent.py.  Importing the module executes its          *)
(* statements in order; a statement that raises ends the import with that  *)
(* exception, the names bound so far are dropped with the module, and the  *)
(* next import starts over.  A regular expression is the sequence of the   *)
(* constructs re's parser reads: literal text, the opening of a named      *)
(* group, a closing parenthesis, and the opening "(?(" of a conditional    *)
(* group, which is followed by the reference up to the next ")".           *)
(***************************************************************************)
Lit(s) == [t |-> "lit", s |-> s]
Group(name) == [t |-> "group", s |-> name]
Close == [t |-> "close", s |-> ")"]
Cond(ref) == [t |-> "cond", s |-> ref]

AMPM == <<Lit("\\b"), Group("hour"), Lit("1[0-2]|0?[1-9]"), Close, Lit("\\s*"),
          Group("ampm"), Lit("am|pm"), Close, Lit("\\b")>>
HHMM == <<Lit("\\b"), Group("hour"), Lit("\\d{1,2}"), Close, Lit(":"),
          Cond("?=\\d{2}"), Lit("\\d{2}"), Close, Lit("\\b")>>
IN_X == <<Lit("\\bin\\s+"), Group("num"), Lit("\\d+"), Close, Lit("\\s+"),
          Group("unit"), Lit("minute|minutes|hour|hours"), Close, Lit("\\b")>>
DATE_TIME == <<Lit("\\b"), Group("date"), Lit("\\d{4}-\\d{2}-\\d{2}"), Close, Lit("\\s+"),
               Group("time"), Lit("\\d{1,2}:\\d{2}"), Close, Lit("\\b")>>

\* the names of the groups opened before position i, and the group numbers
GroupsBefore(p, i) == {p[j].s : j \in {k \in 1..(i - 1) : p[k].t = "group"}}
Numerals == <<"1", "2", "3", "4", "5", "6", "7", "8", "9">>
GroupNumbers(p) == {Numerals[n] : n \in 1..Cardinality({k \in 1..Len(p) : p[k].t = "group"})}

\* re.compile: the reference of a conditional group must be the name of a
\* group opened before it or the number of a group of the pattern
ReCompile(p) ==
    IF \E i \in 1..Len(p) : /\ p[i].t = "cond"
                            /\ p[i].s \notin GroupsBefore(p, i)
                            /\ p[i].s \notin GroupNumbers(p)
    THEN [ok |-> FALSE, err |-> "re.error: bad character in group name"]
    ELSE [ok |-> TRUE, err |-> ""]

\* the statements of the module that bind a name, in the order of the file
ModuleBody ==
    << [name |-> "EVENTS_DB", compiles |-> <<>>],
       [name |-> "_ensure_db", compiles |-> <<>>],
       [name |-> "Event", compiles |-> <<>>],
       [name |-> "SchedulingAgent", compiles |-> <<>>],
       [name |-> "AMPM", compiles |-> <<AMPM>>],
       [name |-> "HHMM", compiles |-> <<HHMM>>],
       [name |-> "IN_X", compiles |-> <<IN_X>>],
       [name |-> "DATE_TIME", compiles |-> <<DATE_TIME>>],
       [name |-> "_apply_ampm", compiles |-> <<>>],
       [name |-> "parse_natural_time", compiles |-> <<>>] >>

RECURSIVE ExecModule(_, _)
ExecModule(i, bound) ==
    IF i > Len(ModuleBody) THEN [ok |-> TRUE, err |-> "", names |-> bound]
    ELSE LET st == ModuleBody[i]
             c == IF st.compiles = <<>> THEN [ok |-> TRUE, err |-> ""]
                  ELSE ReCompile(st.compiles[1])
         IN  IF c.ok THEN ExecModule(i + 1, bound \cup {st.name})
             ELSE [ok |-> FALSE, err |-> c.err, names |-> {}]

\* from bantu_os.agents.scheduling_agent import <name>
ImportFrom(name) ==
    LET m == ExecModule(1, {})
    IN  IF ~m.ok THEN [ok |-> FALSE, err |-> m.err]
        ELSE IF name \notin m.names THEN [ok |-> FALSE, err |-> "ImportError"]
        ELSE [ok |-> TRUE, err |-> ""]

(***************************************************************************)
(* The uses of the module by a caller: each one imports the name it needs  *)
(* and then calls it.  The def statements of parse_natural_time and of the *)
(* methods of SchedulingAgent take effect only in an import that reaches   *)
(* the end of the module; a use whose import raises ends with that         *)
(* exception, and the table of events is left as it was.                   *)
(***************************************************************************)
DateTime(y, mo, d, h, mi, sec) == [y |-> y, mo |-> mo, d |-> d, h |-> h, mi |-> mi, sec |-> sec]

Nows == { DateTime(2025, 1, 1, 0, 0, 0), DateTime(2025, 1, 1, 10, 15, 42),
          DateTime(2025, 6, 29, 23, 50, 5), DateTime(2024, 12, 30, 8, 5, 30) }

WhenTexts ==
    { <<"2025-10-01", " ", "14:00">>,
      <<"tomorrow", " ", "2025-10-01", " ", "14:00">>,
      <<"in", " ", "30", " ", "minutes">>,
      <<"tomorrow", " ", "in", " ", "2", " ", "hours">>,
      <<"tomorrow", " ", "at", " ", "8AM">>,
      <<"tomorrow">>,
      <<"today", " ", "at", " ", "5pm">>,
      <<"14:30">>,
      <<"soon">>,
      <<>> }

Titles == {<<"standup">>, <<"lunch">>}
EventIds == 1..3

NoSchedOp == [op |-> "none", title |-> <<>>, text |-> <<>>, now |-> "None", id |-> 0,
              loop |-> "None", kind |-> "none", err |-> "", value |-> "None"]

InitScheduler ==
    /\ events = <<>>
    /\ schedOp = NoSchedOp

ImportRaises(name, op) ==
    /\ ~ImportFrom(name).ok
    /\ schedOp' = [op EXCEPT !.kind = "raise", !.err = ImportFrom(name).err]
    /\ events' = events

CallParseNaturalTime(text, now) ==
    ImportRaises("parse_natural_time",
                 [NoSchedOp EXCEPT !.op = "parse_natural_time", !.text = text, !.now = now])

CallAddEvent(title, when_str, now) ==
    ImportRaises("SchedulingAgent",
                 [NoSchedOp EXCEPT !.op = "add_event", !.title = title, !.text = when_str, !.now = now])

CallListEvents ==
    ImportRaises("SchedulingAgent", [NoSchedOp EXCEPT !.op = "list_events"])

CallRemoveEvent(event_id) ==
    ImportRaises("SchedulingAgent", [NoSchedOp EXCEPT !.op = "remove_event", !.id = event_id])

\* a turn of AgentManager.execute that dispatches the tool add_event of
\* make_scheduler_tools(agent, memory) with the arguments title and when,
\* inside a running event loop or without one: tools/scheduler.py imports
\* SchedulingAgent when it is imported itself (line 11), before the tools can
\* be made and registered
CallAddEventTool(title, when, loop) ==
    ImportRaises("SchedulingAgent",
                 [NoSchedOp EXCEPT !.op = "tool_add_event", !.title = title, !.text = when,
                                   !.loop = loop])

NextScheduler ==
    \/ \E title \in Titles, when \in WhenTexts, loop \in {"running", "none"} :
          CallAddEventTool(title, when, loop)
    \/ \E text \in WhenTexts, now \in Nows : CallParseNaturalTime(text, now)
    \/ \E title \in Titles, text \in WhenTexts, now \in Nows : CallAddEvent(title, text, now)
    \/ CallListEvents
    \/ \E id \in EventIds : CallRemoveEvent(id)

(***************************************************************************)
(* Properties of the AgentManager turn                                     *)
(***************************************************************************)
\* what _safe_parse_action makes of the model text of the turn
Parsed == SafeParseAction(llm_text)

\* action.get("action") and action.get("args") or {} of the parsed action
ActionName == ObjGetDefault(Parsed.obj, <<"action">>, JNull)
ActionArgs == ArgsOf(Parsed.obj)

\* the model text decoded as JSON
Decoded == JsonLoads(llm_text)

StartsWith(s, prefix) == Len(s) >= Len(prefix) /\ SubSeq(s, 1, Len(prefix)) = prefix

Returns(text) == outcome = [kind |-> "return", text |-> text]

DecodesToRespond ==
    /\ pc = "done"
    /\ Decoded.ok
    /\ IsDict(Decoded.v)
    /\ ObjHas(Decoded.v, <<"action">>)
    /\ ObjGet(Decoded.v, <<"action">>) = Word("respond")

\* C1: a model output that decodes to {"action": "respond", "args": {"message": m}}
\* with m a string makes execute return exactly m; with args absent, empty or
\* without a message key it returns the empty string; no tool is invoked,
\* also when a tool is registered under the name "respond".
C1_RespondReturnsMessage ==
    DecodesToRespond =>
        LET a == ObjGetDefault(Decoded.v, <<"args">>, JNull)
            hasArgs == ObjHas(Decoded.v, <<"args">>)
            m == ObjGetDefault(a, <<"message">>, JNull)
        IN  /\ (hasArgs /\ IsDict(a) /\ ObjHas(a, <<"message">>) /\ m.t = "str")
                  => (Returns(m.s) /\ invoked = <<>>)
            /\ (~hasArgs \/ a = JObj(<<>>) \/ (IsDict(a) /\ ~ObjHas(a, <<"message">>)))
                  => (Returns(<<>>) /\ invoked = <<>>)

\* a respond turn answered with its message while a tool is registered under "respond"
C1_Witness ==
    /\ DecodesToRespond
    /\ <<"respond">> \in DOMAIN tools
    /\ ObjHas(Decoded.v, <<"args">>)
    /\ ObjGet(Decoded.v, <<"args">>) = JObj(<<Pair("message", JStr(<<" ", "hi", " ", "}">>))>>)
    /\ Returns(<<" ", "hi", " ", "}">>)
    /\ invoked = <<>>

NamesString == pc = "done" /\ Parsed.found /\ ActionName.t = "str"

\* C2: a parsed action whose name is not "respond" and not a key of the
\* registry makes execute return "Unknown tool: " followed by the name, and
\* no tool is invoked.
C2_UnknownTool ==
    (NamesString /\ ActionName # Word("respond") /\ ActionName.s \notin DOMAIN tools)
        => (Returns(<<"Unknown", " ", "tool", ":", " ">> \o ActionName.s) /\ invoked = <<>>)

\* the name of a tool that was registered and then unregistered is reported unknown
C2_Witness ==
    /\ NamesString
    /\ ActionName = Word("calc")
    /\ regLog[<<"calc">>] = "unregistered"
    /\ tools # EmptyRegistry
    /\ Returns(<<"Unknown", " ", "tool", ":", " ", "calc">>)

\* C3: when no action is found in the model text, execute returns the text
\* as the Kernel returned it, untrimmed, and invokes no tool.
C3_FallbackRawText ==
    (pc = "done" /\ ~Parsed.found) => (Returns(llm_text) /\ invoked = <<>>)

\* a text with braces and white space around it, in which no action is found
C3_Witness ==
    /\ pc = "done"
    /\ ~Parsed.found
    /\ Strip(llm_text) # llm_text
    /\ Find(llm_text, "{") # 0
    /\ Returns(llm_text)

Misfit ==
    /\ NamesString
    /\ ActionName.s \in DOMAIN tools
    /\ ~Binds(tools[ActionName.s], ActionArgs)

ArgumentErrorReturned ==
    /\ outcome.kind = "return"
    /\ StartsWith(outcome.text,
                  <<"Tool", " ", "'">> \o ActionName.s
                      \o <<"'", " ", "argument", " ", "error", ":", " ">>)

\* C4 as claimed: for every registered tool the action names, args that do
\* not fit its keyword signature give "Tool '<name>' argument error:".
C4_ArgumentErrorAnyName == Misfit => ArgumentErrorReturned

\* C4: when the parsed action names a registered tool other than the reserved
\* action "respond" and args does not fit the keyword signature of the tool,
\* execute does not raise and returns a text starting with
\* "Tool '<name>' argument error:".
C4_ArgumentError == (Misfit /\ ActionName # Word("respond")) => ArgumentErrorReturned

\* needs_a(a) called with the keyword b
C4_Witness ==
    /\ Misfit
    /\ ActionName = Word("calc")
    /\ tools[<<"calc">>] = "needs_a"
    /\ ActionArgs = JObj(<<Pair("b", JNum(1))>>)
    /\ ArgumentErrorReturned
    /\ invoked # <<>> /\ ~invoked[1].ran

\* the tool the action names was called, its arguments bound, and its body
\* raised an exception
ToolRaised ==
    /\ pc = "done"
    /\ invoked # <<>>
    /\ invoked[1].ran
    /\ Body(invoked[1].fn, invoked[1].args).kind # "value"

\* C21: a registered tool that accepts the keyword arguments and then raises
\* makes execute return a text starting with "Tool '<name>' failed:"; the
\* "argument error" text is returned only when args does not fit the
\* keyword signature of the tool.
C21_ToolFailure ==
    /\ ToolRaised
          => /\ outcome.kind = "return"
             /\ StartsWith(outcome.text,
                           <<"Tool", " ", "'">> \o ActionName.s \o <<"'", " ", "failed", ":", " ">>)
    /\ (NamesString /\ ActionName.s \in DOMAIN tools /\ ArgumentErrorReturned) => Misfit

\* C5: for every model text execute ends by returning a text; no exception
\* leaves execute.
C5_AlwaysReturnsText == pc = "done" => outcome.kind = "return"

NoChar(s, c) == \A i \in 1..Len(s) : s[i] # c

\* C6: _safe_parse_action returns the object decoded from the whole trimmed
\* text when that is an object with an action key, else the object decoded
\* from the first '{' to the last '}' when that is one, else null: the result
\* is null or an object with an action key, an action object wrapped in prose
\* is extracted, and a text without braces yields null.
C6_SafeParseAction ==
    pc = "done" =>
        LET t == Strip(llm_text)
            whole == JsonLoads(t)
            braced == Find(t, "{") # 0 /\ RFind(t, "}") > Find(t, "{")
            inner == IF braced THEN JsonLoads(SubSeq(t, Find(t, "{"), RFind(t, "}")))
                     ELSE Fail
        IN  /\ Parsed.found => (IsDict(Parsed.obj) /\ ObjHas(Parsed.obj, <<"action">>))
            /\ IsAction(whole) => (Parsed.found /\ Parsed.obj = whole.v)
            /\ (~IsAction(whole) /\ IsAction(inner)) => (Parsed.found /\ Parsed.obj = inner.v)
            /\ (~IsAction(whole) /\ ~IsAction(inner)) => ~Parsed.found
            /\ (sent.isPlan /\ NoChar(sent.pre, "{") /\ NoChar(sent.post, "}"))
                  => (Parsed.found /\ Parsed.obj = sent.plan)
            /\ (NoChar(llm_text, "{") \/ NoChar(llm_text, "}")) => ~Parsed.found

\* an action plan with a nested args object, wrapped in prose on both sides
C6_Witness ==
    /\ pc = "done"
    /\ sent.isPlan
    /\ sent.pre = <<"noise", " ">>
    /\ sent.post = <<" ", "noise">>
    /\ ~JsonLoads(llm_text).ok
    /\ ObjHas(sent.plan, <<"args">>)
    /\ ObjGet(sent.plan, <<"args">>) = JObj(<<Pair("a", Word("hi"))>>)
    /\ Parsed.found
    /\ Parsed.obj = sent.plan

\* the registry holds, under each name, the callable of the last registration
\* that no unregister followed
RegistryAsLogged ==
    /\ DOMAIN tools \subseteq RegNames
    /\ \A n \in RegNames :
          IF regLog[n] \in Callables THEN n \in DOMAIN tools /\ tools[n] = regLog[n]
          ELSE n \notin DOMAIN tools

\* unregister_tool of a name that was never registered changes nothing
UnregisterAbsent ==
    \A n \in RegNames :
        (regLog[n] = "never" /\ regLog'[n] = "unregistered") => tools' = tools

Logged(name) == IF name \in RegNames THEN regLog[name] ELSE "never"

\* execute calls the callable last registered under the name, or reports the
\* name unknown
DispatchedAsLogged ==
    IF Logged(ActionName.s) \in Callables
    THEN Len(invoked) = 1 /\ invoked[1].fn = Logged(ActionName.s)
    ELSE Returns(<<"Unknown", " ", "tool", ":", " ">> \o ActionName.s) /\ invoked = <<>>

\* C7 as claimed: the registry maps each name to its most recent registration
\* not followed by an unregister, unregister_tool of an absent name changes
\* nothing, and execute dispatches an action named n to that callable or
\* returns "Unknown tool: n", for every name n.
C7_LastRegistrationWinsAnyName ==
    /\ []RegistryAsLogged
    /\ [][UnregisterAbsent]_vars
    /\ [](NamesString => DispatchedAsLogged)

\* C7: as claimed, with the dispatch stated for every name n other than the
\* reserved action "respond".
C7_LastRegistrationWins ==
    /\ []RegistryAsLogged
    /\ [][UnregisterAbsent]_vars
    /\ []((NamesString /\ ActionName # Word("respond")) => DispatchedAsLogged)

\* a turn dispatched to the callable registered last, after an unregister of
\* another name
C7_Witness ==
    /\ NamesString
    /\ ActionName = Word("calc")
    /\ regLog[<<"calc">>] = "boom"
    /\ regLog[<<"respond">>] = "unregistered"
    /\ Len(invoked) = 1
    /\ invoked[1].fn = "boom"
    /\ Returns(<<"Tool", " ", "'", "calc", "'", " ", "failed", ":", " ", "kaboom">>)

(***************************************************************************)
(* The memory: store_memory, delete and retrieve on one Memory             *)
(***************************************************************************)
\* the calls of store_memory: a text, its embedding (of the configured
\* dimension or not) and the metadata
StoreInputs ==
    {[text |-> <<"hi">>, embedding |-> <<1, 0>>, metadata |-> "None"],
     [text |-> <<>>, embedding |-> <<1, 1>>, metadata |-> "tag"],
     [text |-> <<"ok">>, embedding |-> <<0, 0>>, metadata |-> "tag"],
     [text |-> <<"hi">>, embedding |-> <<1>>, metadata |-> "None"],
     [text |-> <<"ok">>, embedding |-> <<1, 0, 0>>, metadata |-> "tag"]}

\* the embeddings of the queries of retrieve_memory
Queries == {<<1, 0>>, <<1, 1>>, <<0, 0>>, <<1>>}

NoOp == [op |-> "none", ok |-> TRUE, id |-> 0, arg |-> <<>>, k |-> 0, results |-> <<>>]

InitMemory ==
    /\ records = <<>>
    /\ insertOrder = <<>>
    /\ issued = {}
    /\ memOp = NoOp

\* memory.store_memory(text, embedding, metadata)
Store(text, embedding, metadata) ==
    LET r == StoreMemory(records, text, embedding, metadata)
    IN  /\ Len(records) < MaxRecords
        /\ records' = r.records
        /\ insertOrder' = IF r.ok
                          THEN Append(SelectSeq(insertOrder, LAMBDA i : i # r.id), r.id)
                          ELSE insertOrder
        /\ issued' = IF r.ok THEN issued \cup {r.id} ELSE issued
        /\ memOp' = [NoOp EXCEPT !.op = "store", !.ok = r.ok, !.id = r.id, !.arg = embedding]

\* memory.store.delete(record_id)
DeleteRecord(id) ==
    LET r == Delete(records, id)
    IN  /\ records' = r.records
        /\ insertOrder' = SelectSeq(insertOrder, LAMBDA i : i # id)
        /\ memOp' = [NoOp EXCEPT !.op = "delete", !.ok = r.ok, !.id = id]
        /\ UNCHANGED issued

\* memory.retrieve_memory(query, top_k) with q the embedding of the query
Retrieve(q, k) ==
    /\ memOp' = IF Len(q) # Dim
                THEN [NoOp EXCEPT !.op = "search", !.ok = FALSE, !.arg = q, !.k = k]
                ELSE [NoOp EXCEPT !.op = "search", !.arg = q, !.k = k,
                                  !.results = Search(records, q, k)]
    /\ UNCHANGED <<records, insertOrder, issued>>

NextMemory ==
    \/ \E in \in StoreInputs : Store(in.text, in.embedding, in.metadata)
    \/ \E id \in 1..(MaxRecords + 1) : DeleteRecord(id)
    \/ \E q \in Queries, k \in 0..MaxK : Retrieve(q, k)

(***************************************************************************)
(* Memory with its embedder, and Kernel.process_input                      *)
(***************************************************************************)
\* memory_top_k of Kernel.__init__
MemoryTopK == 3

\* the embedders a Memory is given: "e2" returns vectors of the dimension of
\* the store, "e3" vectors of another dimension; each depends on the text only
Embedders == {"e2", "e3"}

\* (await provider.embed([text]))[0]
EmbedVector(e, text) ==
    IF e = "e3" THEN <<1, 0, 0>>
    ELSE CASE text = <<"hi">> -> <<1, 0>>
           [] text = <<"ok">> -> <<0, 1>>
           [] text = <<>> -> <<1, 1>>
           [] OTHER -> <<2, 1>>

\* an embedder that is always taken to be configured
ConfiguredAlways(e) == TRUE

\* `if not self.embeddings` is false: an embedder is configured
Configured(e) == e # "None"

NotConfigured == "RuntimeError: Embeddings provider not configured for Memory"

\* Memory.store_text(text); fails: the embedder raises
\* [ok, err, id, records, embedded]
MemoryStoreText(e, fails, recs, text) ==
    IF ~Configured(e)
    THEN [ok |-> FALSE, err |-> NotConfigured, id |-> 0, records |-> recs, embedded |-> <<>>]
    ELSE IF fails
    THEN [ok |-> FALSE, err |-> "EmbedError", id |-> 0, records |-> recs, embedded |-> <<text>>]
    ELSE LET r == StoreMemory(recs, text, EmbedVector(e, text), "None")
         IN  [ok |-> r.ok, err |-> IF r.ok THEN "none" ELSE "ValueError", id |-> r.id,
              records |-> r.records, embedded |-> <<text>>]

\* Memory.retrieve_memory(query, top_k): [ok, err, results, embedded]
MemoryRetrieve(e, fails, recs, query, k) ==
    IF ~Configured(e)
    THEN [ok |-> FALSE, err |-> NotConfigured, results |-> <<>>, embedded |-> <<>>]
    ELSE IF fails
    THEN [ok |-> FALSE, err |-> "EmbedError", results |-> <<>>, embedded |-> <<query>>]
    ELSE IF Len(EmbedVector(e, query)) # Dim
    THEN [ok |-> FALSE, err |-> "ValueError", results |-> <<>>, embedded |-> <<query>>]
    ELSE [ok |-> TRUE, err |-> "none", results |-> Search(recs, EmbedVector(e, query), k),
          embedded |-> <<query>>]

Msg(role, content) == [role |-> role, content |-> content]

MemoryHeader == "Relevant memory items (most similar first):"

RECURSIVE JoinLines(_)
\* "\n".join(mem_snippets)
JoinLines(lines) ==
    IF lines = <<>> THEN <<>>
    ELSE IF Len(lines) = 1 THEN lines[1]
    ELSE lines[1] \o <<"\n">> \o JoinLines(Tail(lines))

\* the snippets of the results: "- " and the text, for each non-empty text
MemSnippets(results) ==
    LET texts == SelectSeq([i \in 1..Len(results) |-> results[i].text], LAMBDA t : t # <<>>)
    IN  [i \in 1..Len(texts) |-> <<"- ">> \o texts[i]]

\* the system message made of the retrieved memories, if any
MemoryMessages(results) ==
    IF MemSnippets(results) = <<>> THEN <<>>
    ELSE <<Msg("system", <<MemoryHeader, "\n">> \o JoinLines(MemSnippets(results)))>>

\* the Kernel uses the memory: `self.memory and self.memory.embeddings is not None`
UsesMemory(km, e) == km = "set" /\ e # "None"

\* a process_input that adds the memory block after the user message
BuildMessagesMemoryLast(km, e, fails, recs, text, system_prompt, context) ==
    LET r == MemoryRetrieve(e, fails, recs, text, MemoryTopK)
    IN  [messages |-> (IF PyTruthy(system_prompt) THEN <<Msg("system", system_prompt.s)>> ELSE <<>>)
                        \o (IF PyTruthy(context) THEN context.l ELSE <<>>)
                        \o <<Msg("user", text)>>
                        \o (IF UsesMemory(km, e) /\ r.ok THEN MemoryMessages(r.results) ELSE <<>>),
         embedded |-> IF UsesMemory(km, e) THEN r.embedded ELSE <<>>]

\* a process_input that stores the input before it retrieves
BuildMessagesAfterStore(km, e, fails, recs, text, system_prompt, context) ==
    LET stored == MemoryStoreText(e, FALSE, recs, text).records
        r == MemoryRetrieve(e, fails, stored, text, MemoryTopK)
    IN  [messages |-> (IF PyTruthy(system_prompt) THEN <<Msg("system", system_prompt.s)>> ELSE <<>>)
                        \o (IF PyTruthy(context) THEN context.l ELSE <<>>)
                        \o (IF UsesMemory(km, e) /\ r.ok THEN MemoryMessages(r.results) ELSE <<>>)
                        \o <<Msg("user", text)>>,
         embedded |-> IF UsesMemory(km, e) THEN r.embedded ELSE <<>>]

\* a process_input that puts an empty memory block where the retrieval failed
BuildMessagesEmptyBlock(km, e, fails, recs, text, system_prompt, context) ==
    LET r == MemoryRetrieve(e, fails, recs, text, MemoryTopK)
    IN  [messages |-> (IF PyTruthy(system_prompt) THEN <<Msg("system", system_prompt.s)>> ELSE <<>>)
                        \o (IF PyTruthy(context) THEN context.l ELSE <<>>)
                        \o (IF UsesMemory(km, e)
                            THEN IF r.ok THEN MemoryMessages(r.results)
                                 ELSE <<Msg("system", <<MemoryHeader, "\n">>)>>
                            ELSE <<>>)
                        \o <<Msg("user", text)>>,
         embedded |-> IF UsesMemory(km, e) THEN r.embedded ELSE <<>>]

\* process_input up to its call of llm.generate: [messages, embedded]
BuildMessages(km, e, fails, recs, text, system_prompt, context) ==
    LET r == MemoryRetrieve(e, fails, recs, text, MemoryTopK)
    IN  [messages |-> (IF PyTruthy(system_prompt) THEN <<Msg("system", system_prompt.s)>> ELSE <<>>)
                        \o (IF PyTruthy(context) THEN context.l ELSE <<>>)
                        \o (IF UsesMemory(km, e) /\ r.ok THEN MemoryMessages(r.results) ELSE <<>>)
                        \o <<Msg("user", text)>>,
         embedded |-> IF UsesMemory(km, e) THEN r.embedded ELSE <<>>]

NoActiveModel == "RuntimeError: No active model configured in LLMManager."

\* LLMManager.generate: the result of the provider, or the error raised
\* po is what the provider does: [ok, result] or [ok, err]
Generate(act, po) ==
    IF ~act THEN [ok |-> FALSE, err |-> NoActiveModel, result |-> JNull]
    ELSE po

\* a process_input that returns an empty text when the call of the model fails
AfterGenerateSwallows(km, e, po) ==
    IF ~po.ok THEN [next |-> "return", err |-> "none", text |-> JStr(<<>>)]
    ELSE [next |-> IF UsesMemory(km, e) THEN "storing input" ELSE "return", err |-> "none",
          text |-> ObjGetDefault(po.result, <<"text">>, JStr(<<>>))]

\* process_input from the end of its await of llm.generate to its next await
\* or its end; e is the embedder of the Memory at that moment.
\* [next, err, text]: the error raised, or output_text and whether
\* store_text(text) is awaited next
AfterGenerate(km, e, po) ==
    IF ~po.ok THEN [next |-> "raise", err |-> po.err, text |-> JNull]
    ELSE [next |-> IF UsesMemory(km, e) THEN "storing input" ELSE "return", err |-> "none",
          text |-> ObjGetDefault(po.result, <<"text">>, JStr(<<>>))]

\* a process_input that lets a failed memory write out to its caller
AfterInputStoredRaises(e, s1, output_text) ==
    IF ~s1.ok THEN [next |-> "raise", err |-> "MemoryError"]
    ELSE IF ~PyTruthy(output_text) THEN [next |-> "return", err |-> "none"]
    ELSE IF ~Configured(e) THEN [next |-> "raise", err |-> "MemoryError"]
    ELSE [next |-> "storing output", err |-> "none"]

\* process_input from the end of its first store_text (s1: how it ended) to
\* its next await or its end; e is the embedder of the Memory at that moment.
\* A failed store ends the writes; store_text(output_text) is called when
\* output_text is not empty, and raises at once without an embedder.
AfterInputStored(e, s1, output_text) ==
    IF ~s1.ok THEN [next |-> "return", err |-> "none"]
    ELSE IF ~PyTruthy(output_text) THEN [next |-> "return", err |-> "none"]
    ELSE IF ~Configured(e) THEN [next |-> "return", err |-> "none"]
    ELSE [next |-> "storing output", err |-> "none"]

\* execute after its await of kernel.process_input, which is outside any try
ExecuteAfterKernel(k, registry) ==
    IF k.kind = "raise" THEN Raise(k.err) ELSE Execute(k.text.s, registry)

\* the text of INTERPRETER_SYSTEM_PROMPT, kept as one lexeme
InterpreterPrompt == <<"(interpreter prompt)">>

\* the texts given to process_input, store_text and retrieve_memory
UserTexts == {<<"hi">>, <<"ok">>, <<>>}

\* the texts another caller stores
MeanwhileTexts == {<<"ok">>}

\* what another caller hands to store_memory: a vector of its own choice (one
\* no embedder gives for the text, the zero vector) or one of another
\* dimension
MeanwhileStores ==
    {[text |-> <<"ok">>, embedding |-> <<0, 0>>, metadata |-> "tag"],
     [text |-> <<"ok">>, embedding |-> <<1, 0, 0>>, metadata |-> "None"]}

\* system_prompt and context of a direct call of process_input
PromptArgs ==
    {[system_prompt |-> JNull, context |-> JNull],
     [system_prompt |-> JStr(<<"sys">>), context |-> JNull],
     [system_prompt |-> JStr(<<>>), context |-> JList(<<>>)],
     [system_prompt |-> JStr(<<"sys">>),
      context |-> JList(<<Msg("user", <<"ok">>), Msg("assistant", <<"hi">>)>>)]}

ProviderOk(result) == [ok |-> TRUE, err |-> "none", result |-> result]

\* what provider.generate does: a result with text, with empty text, without
\* text, with the text of an action plan, or an error
ProviderOutcomes ==
    {ProviderOk(JObj(<<Pair("text", Word("stub")), Pair("raw", JObj(<<>>))>>)),
     ProviderOk(JObj(<<Pair("text", JStr(<<>>))>>)),
     ProviderOk(JObj(<<Pair("raw", JObj(<<>>))>>)),
     ProviderOk(JObj(<<Pair("text",
         JStr(JsonDumps(JObj(<<Pair("action", Word("respond")),
                               Pair("args", JObj(<<Pair("message", Word("hi"))>>))>>))))>>)),
     [ok |-> FALSE, err |-> "TimeoutError", result |-> JNull]}

\* no provider was asked
NoProvider == [ok |-> FALSE, err |-> "none", result |-> JNull]

\* a call: who called, with what, the embedder whose answer it awaits (emb),
\* what the embedder (fails, f1, f2: it raises in the retrieval, the first
\* store, the second store) and the provider (po) did during it, and how many
\* steps of other callers ran while it was suspended (others)
NoCall ==
    [caller |-> "none", text |-> <<>>, system_prompt |-> JNull, context |-> JNull, k |-> 0,
     emb |-> "None", fails |-> FALSE, po |-> NoProvider, f1 |-> FALSE, f2 |-> FALSE,
     others |-> 0]

NoKout == [kind |-> "none", err |-> "none", text |-> JNull, id |-> 0, results |-> <<>>]

\* no store_text of another caller is under way
NoOther == [pc |-> "idle", text |-> <<>>, emb |-> "None"]

\* Kernel(memory=None) or Kernel(memory=Memory(...)), the Memory with or
\* without an embedder; the model "default" is loaded and active
InitKernel ==
    /\ kmemory \in {"None", "set"}
    /\ embeddings \in {"None", "e2"}
    /\ active = TRUE
    /\ kpc = "idle"
    /\ kcall = NoCall
    /\ messages = <<>>
    /\ kout = NoKout
    /\ embedLog = <<>>
    /\ other = NoOther

\* a Kernel without memory, at rest
KernelAtRest ==
    /\ kmemory = "None"
    /\ embeddings = "None"
    /\ active = TRUE
    /\ kpc = "idle"
    /\ kcall = NoCall
    /\ messages = <<>>
    /\ kout = NoKout
    /\ embedLog = <<>>
    /\ other = NoOther

turnVars == <<pc, llm_text, outcome, invoked>>

(***************************************************************************)
(* The calls below are coroutines of one event loop.  A call runs alone    *)
(* from one await that suspends it to the next: the embedder in            *)
(* store_text and retrieve_memory, the provider in llm.generate.  One      *)
(* action is the code between two of them.  While a call is suspended      *)
(* other callers run: they set the embedder, load and unload the model,    *)
(* store and delete records; the store_text of another caller is itself    *)
(* suspended at the embedder (other).  kpc is where the call is: "idle",   *)
(* "embedding text", "embedding query" (store_text, retrieve_memory),      *)
(* "retrieving", "generating", "storing input", "storing output"           *)
(* (process_input), "ended" (the moment the call returns or raises).       *)
(***************************************************************************)
Suspended == kpc \notin {"idle", "ended"}

\* another caller changes what the call works on (the embedder, the model,
\* a stored record): between two calls, or while the call is suspended
Meanwhile ==
    /\ kpc # "ended"
    /\ Suspended => kcall.others < MaxMeanwhile
    /\ kcall' = IF Suspended THEN [kcall EXCEPT !.others = @ + 1] ELSE kcall

\* memory.set_embeddings_provider(e), between two calls or while one is suspended
SetEmbeddingsProvider(e) ==
    /\ Meanwhile
    /\ embeddings' = e
    /\ UNCHANGED <<other, kmemory, active, kpc, messages, kout, embedLog, records, turnVars>>

\* kernel.llm.unload_model("default")
UnloadModel ==
    /\ Meanwhile
    /\ active
    /\ active' = FALSE
    /\ UNCHANGED <<other, kmemory, embeddings, kpc, messages, kout, embedLog, records, turnVars>>

\* kernel.llm.load_model("default", ...)
LoadModel ==
    /\ Meanwhile
    /\ ~active
    /\ active' = TRUE
    /\ UNCHANGED <<other, kmemory, embeddings, kpc, messages, kout, embedLog, records, turnVars>>

\* memory.store.delete("vec_<id>"), between two calls or while one is suspended
DeleteStored(id) ==
    /\ Meanwhile
    /\ records' = Delete(records, id).records
    /\ UNCHANGED <<other, kmemory, embeddings, active, kpc, messages, kout, embedLog, turnVars>>

\* memory.store_memory(text, embedding, metadata) of another caller, between
\* two calls or while one is suspended: it needs no embedder and does not
\* await; an embedding of another dimension raises ValueError and nothing is
\* stored
OtherStoreMemory(text, embedding, metadata) ==
    /\ Meanwhile
    /\ Len(records) < MaxRecords
    /\ records' = StoreMemory(records, text, embedding, metadata).records
    /\ UNCHANGED <<other, kmemory, embeddings, active, kpc, messages, kout, embedLog, turnVars>>

\* await memory.store_text(text) of another caller, up to the await of the
\* embedder; without an embedder it raises at once and nothing changes
OtherStoreText(text) ==
    /\ kpc # "ended"
    /\ other.pc = "idle"
    /\ Configured(embeddings)
    /\ other' = [pc |-> "embedding", text |-> text, emb |-> embeddings]
    /\ UNCHANGED <<kmemory, embeddings, active, kpc, kcall, messages, kout, embedLog, records,
                   turnVars>>

\* the embedder answers the other caller or raises; store_memory; its
\* store_text returns
OtherStoreTextReturns(fails) ==
    LET r == MemoryStoreText(other.emb, fails, records, other.text)
    IN  /\ other.pc = "embedding"
        /\ kpc # "ended"
        /\ Len(records) < MaxRecords
        /\ records' = r.records
        /\ other' = NoOther
        /\ UNCHANGED <<kmemory, embeddings, active, kpc, kcall, messages, kout, embedLog,
                       turnVars>>

\* process_input ends: it returns text or raises err to its caller; execute
\* is still at its await of process_input
EndOfCall(caller, kind, err, text) ==
    /\ kout' = [NoKout EXCEPT !.kind = kind, !.err = err, !.text = text]
    /\ kpc' = "ended"
    /\ pc' = IF caller = "execute" THEN "awaiting" ELSE pc
    /\ UNCHANGED <<llm_text, outcome, invoked>>

\* process_input calls llm.generate: it raises at once without an active
\* model, else the provider is awaited
CallModel(caller) ==
    LET g == Generate(active, ProviderOk(JNull))
    IN  IF ~g.ok
        THEN EndOfCall(caller, "raise", g.err, JNull)
        ELSE /\ kpc' = "generating"
             /\ pc' = IF caller = "execute" THEN "awaiting" ELSE pc
             /\ UNCHANGED <<kout, llm_text, outcome, invoked>>

\* await memory.store_text(text), up to the await of the embedder
StoreText(text) ==
    /\ kpc = "idle"
    /\ Len(records) < MaxRecords
    /\ kcall' = [NoCall EXCEPT !.caller = "store_text", !.text = text, !.emb = embeddings]
    /\ IF Configured(embeddings)
       THEN /\ kpc' = "embedding text"
            /\ embedLog' = <<text>>
            /\ UNCHANGED kout
       ELSE /\ kpc' = "ended"
            /\ embedLog' = <<>>
            /\ kout' = [NoKout EXCEPT !.kind = "raise", !.err = NotConfigured]
    /\ UNCHANGED <<other, kmemory, embeddings, active, messages, records, turnVars>>

\* the embedder answers or raises; store_memory; store_text returns
StoreTextReturns(fails) ==
    LET r == MemoryStoreText(kcall.emb, fails, records, kcall.text)
    IN  /\ kpc = "embedding text"
        /\ records' = r.records
        /\ kcall' = [kcall EXCEPT !.fails = fails]
        /\ kout' = [NoKout EXCEPT !.kind = IF r.ok THEN "return" ELSE "raise",
                                  !.err = r.err, !.id = r.id]
        /\ kpc' = "ended"
        /\ UNCHANGED <<other, kmemory, embeddings, active, messages, embedLog, turnVars>>

\* await memory.retrieve_memory(query, top_k), up to the await of the embedder
RetrieveMemory(query, k) ==
    /\ kpc = "idle"
    /\ kcall' = [NoCall EXCEPT !.caller = "retrieve_memory", !.text = query, !.k = k,
                               !.emb = embeddings]
    /\ IF Configured(embeddings)
       THEN /\ kpc' = "embedding query"
            /\ embedLog' = <<query>>
            /\ UNCHANGED kout
       ELSE /\ kpc' = "ended"
            /\ embedLog' = <<>>
            /\ kout' = [NoKout EXCEPT !.kind = "raise", !.err = NotConfigured]
    /\ UNCHANGED <<other, kmemory, embeddings, active, messages, records, turnVars>>

\* the embedder answers or raises; the search; retrieve_memory returns
RetrieveMemoryReturns(fails) ==
    LET r == MemoryRetrieve(kcall.emb, fails, records, kcall.text, kcall.k)
    IN  /\ kpc = "embedding query"
        /\ kcall' = [kcall EXCEPT !.fails = fails]
        /\ kout' = [NoKout EXCEPT !.kind = IF r.ok THEN "return" ELSE "raise",
                                  !.err = r.err, !.results = r.results]
        /\ kpc' = "ended"
        /\ UNCHANGED <<other, kmemory, embeddings, active, messages, embedLog, records, turnVars>>

\* process_input(text, system_prompt, context), called directly or by
\* AgentManager.execute: with a memory in use up to the await of the embedder
\* in retrieve_memory, else up to the await of the provider
ProcessInputBegin(caller, text, system_prompt, context) ==
    /\ kpc = "idle"
    /\ Len(records) + 2 <= MaxRecords
    /\ IF UsesMemory(kmemory, embeddings)
       THEN /\ kcall' = [NoCall EXCEPT !.caller = caller, !.text = text, !.emb = embeddings,
                                       !.system_prompt = system_prompt, !.context = context]
            /\ kpc' = "retrieving"
            /\ messages' = <<>>
            /\ embedLog' = <<text>>
            /\ pc' = IF caller = "execute" THEN "awaiting" ELSE pc
            /\ UNCHANGED <<kout, llm_text, outcome, invoked>>
       ELSE /\ kcall' = [NoCall EXCEPT !.caller = caller, !.text = text,
                                       !.system_prompt = system_prompt, !.context = context]
            /\ messages' = BuildMessages(kmemory, embeddings, FALSE, records, text,
                                         system_prompt, context).messages
            /\ embedLog' = <<>>
            /\ CallModel(caller)
    /\ UNCHANGED <<other, kmemory, embeddings, active, records>>

\* the embedder answers or raises; the search, the memory block, the user
\* message, and the call of llm.generate
RetrievalReturns(fails) ==
    /\ kpc = "retrieving"
    /\ kcall' = [kcall EXCEPT !.fails = fails]
    /\ messages' = BuildMessages(kmemory, kcall.emb, fails, records, kcall.text,
                                 kcall.system_prompt, kcall.context).messages
    /\ CallModel(kcall.caller)
    /\ UNCHANGED <<other, kmemory, embeddings, active, records, embedLog>>

\* the provider answers or raises; process_input raises, or returns, or goes on
\* to the await of the embedder in store_text(text)
LlmReturns(po) ==
    LET a == AfterGenerate(kmemory, embeddings, po)
    IN  /\ kpc = "generating"
        /\ IF a.next = "storing input"
           THEN /\ kcall' = [kcall EXCEPT !.po = po, !.emb = embeddings]
                /\ kpc' = "storing input"
                /\ embedLog' = Append(embedLog, kcall.text)
                /\ UNCHANGED <<kout, turnVars>>
           ELSE /\ kcall' = [kcall EXCEPT !.po = po]
                /\ embedLog' = embedLog
                /\ EndOfCall(kcall.caller, a.next, a.err, a.text)
        /\ UNCHANGED <<other, kmemory, embeddings, active, messages, records>>

\* output_text of the call, once the provider has answered
OutputText == ObjGetDefault(kcall.po.result, <<"text">>, JStr(<<>>))

\* the embedder answers or raises; store_memory of the input; process_input
\* returns, or goes on to the await of the embedder in store_text(output_text)
InputStored(f1) ==
    LET s1 == MemoryStoreText(kcall.emb, f1, records, kcall.text)
        a == AfterInputStored(embeddings, s1, OutputText)
    IN  /\ kpc = "storing input"
        /\ records' = s1.records
        /\ IF a.next = "storing output"
           THEN /\ kcall' = [kcall EXCEPT !.f1 = f1, !.emb = embeddings]
                /\ kpc' = "storing output"
                /\ embedLog' = Append(embedLog, OutputText.s)
                /\ UNCHANGED <<kout, turnVars>>
           ELSE /\ kcall' = [kcall EXCEPT !.f1 = f1]
                /\ embedLog' = embedLog
                /\ EndOfCall(kcall.caller, a.next, a.err,
                             IF a.next = "return" THEN OutputText ELSE JNull)
        /\ UNCHANGED <<other, kmemory, embeddings, active, messages>>

\* the embedder answers or raises; store_memory of the output; process_input
\* returns output_text
OutputStored(f2) ==
    LET s2 == MemoryStoreText(kcall.emb, f2, records, OutputText.s)
    IN  /\ kpc = "storing output"
        /\ records' = s2.records
        /\ kcall' = [kcall EXCEPT !.f2 = f2]
        /\ EndOfCall(kcall.caller, "return", "none", OutputText)
        /\ UNCHANGED <<other, kmemory, embeddings, active, messages, embedLog>>

\* execute goes on from its await of kernel.process_input with what the call
\* returned or raised: no other caller runs between the end of process_input
\* and this step, the two are one stretch of the same task
ExecuteResumes ==
    /\ kpc = "ended"
    /\ kcall.caller = "execute"
    /\ pc = "awaiting"
    /\ pc' = IF kout.kind = "return" THEN "done" ELSE "failed"
    /\ llm_text' = IF kout.kind = "return" THEN kout.text.s ELSE <<>>
    /\ \E x \in {ExecuteAfterKernel(kout, tools)} :
          /\ outcome' = Outcome(x)
          /\ invoked' = x.calls
    /\ UNCHANGED <<kernelVars, records>>

\* the caller takes the result
CallEnds ==
    /\ kpc = "ended"
    /\ pc # "awaiting"
    /\ kpc' = "idle"
    /\ kcall' = NoCall
    /\ messages' = <<>>
    /\ kout' = NoKout
    /\ embedLog' = <<>>
    /\ pc' = "idle"
    /\ llm_text' = <<>>
    /\ outcome' = NoOutcome
    /\ invoked' = <<>>
    /\ UNCHANGED <<other, kmemory, embeddings, active, records>>

NextKernel ==
    \/ \E e \in Embedders \cup {"None"} : SetEmbeddingsProvider(e)
    \/ UnloadModel
    \/ LoadModel
    \/ \E id \in 1..MaxRecords : DeleteStored(id)
    \/ \E in \in MeanwhileStores : OtherStoreMemory(in.text, in.embedding, in.metadata)
    \/ \E text \in MeanwhileTexts : OtherStoreText(text)
    \/ \E fails \in BOOLEAN : OtherStoreTextReturns(fails)
    \/ \E text \in UserTexts : StoreText(text)
    \/ \E fails \in BOOLEAN : StoreTextReturns(fails)
    \/ \E query \in UserTexts : RetrieveMemory(query, MemoryTopK)
    \/ \E fails \in BOOLEAN : RetrieveMemoryReturns(fails)
    \/ \E text \in UserTexts : ProcessInputBegin("direct", text, JNull, JNull)
    \/ \E a \in PromptArgs : ProcessInputBegin("direct", <<"hi">>, a.system_prompt, a.context)
    \/ ProcessInputBegin("execute", <<"hi">>, JStr(InterpreterPrompt), JNull)
    \/ \E fails \in BOOLEAN : RetrievalReturns(fails)
    \/ \E po \in ProviderOutcomes : LlmReturns(po)
    \/ \E f1 \in BOOLEAN : InputStored(f1)
    \/ \E f2 \in BOOLEAN : OutputStored(f2)
    \/ ExecuteResumes
    \/ CallEnds

\* a Kernel whose Memory has a working embedder
InitTurns ==
    /\ kmemory = "set"
    /\ embeddings = "e2"
    /\ active = TRUE
    /\ kpc = "idle"
    /\ kcall = NoCall
    /\ messages = <<>>
    /\ kout = NoKout
    /\ embedLog = <<>>
    /\ other = NoOther

\* turns of process_input, called directly, on a Kernel whose Memory starts
\* with a working embedder, with the steps of other callers between the
\* turns and while a turn is suspended
NextTurns ==
    \/ \E e \in {"e2", "None"} : SetEmbeddingsProvider(e)
    \/ UnloadModel
    \/ LoadModel
    \/ \E id \in 1..MaxRecords : DeleteStored(id)
    \/ \E in \in MeanwhileStores : OtherStoreMemory(in.text, in.embedding, in.metadata)
    \/ \E text \in MeanwhileTexts : OtherStoreText(text)
    \/ \E fails \in BOOLEAN : OtherStoreTextReturns(fails)
    \/ \E text \in UserTexts : StoreText(text)
    \/ \E fails \in BOOLEAN : StoreTextReturns(fails)
    \/ \E query \in UserTexts : RetrieveMemory(query, MemoryTopK)
    \/ \E fails \in BOOLEAN : RetrieveMemoryReturns(fails)
    \/ \E text \in UserTexts : ProcessInputBegin("direct", text, JNull, JNull)
    \/ \E fails \in BOOLEAN : RetrievalReturns(fails)
    \/ \E po \in ProviderOutcomes : LlmReturns(po)
    \/ \E f1 \in BOOLEAN : InputStored(f1)
    \/ \E f2 \in BOOLEAN : OutputStored(f2)
    \/ CallEnds

(***************************************************************************)
(* Turns of process_input on one Kernel and Memory, run as tasks of one     *)
(* event loop.  A task runs alone from one await that suspends it to the   *)
(* next: the await of the embedder in retrieve_memory, the await of the    *)
(* provider in llm.generate, and the await of the embedder in each         *)
(* store_text.  Each action is the code between two of these.  No caller   *)
(* sets the embedder or unloads the model here.                            *)
(***************************************************************************)
TurnIds == 1..MaxTurns

NoTurn == [pc |-> "idle", text |-> <<>>, messages |-> <<>>, output |-> JNull, ids |-> <<>>,
           kind |-> "none"]

InitInterleaved == turns = [t \in TurnIds |-> NoTurn]

\* process_input(text) up to the await of the embedder in retrieve_memory
TurnBegins(t, text) ==
    /\ turns[t].pc = "idle"
    /\ turns' = [turns EXCEPT ![t] = [@ EXCEPT !.pc = "retrieving", !.text = text]]
    /\ UNCHANGED records

\* the embedder answers or raises; the search, the messages, and the call of
\* llm.generate up to the await of the provider (it raises at once without an
\* active model)
TurnRetrieves(t, fails) ==
    /\ turns[t].pc = "retrieving"
    /\ turns' = [turns EXCEPT ![t] =
                    IF Generate(active, ProviderOk(JNull)).ok
                    THEN [@ EXCEPT !.pc = "generating",
                                   !.messages = BuildMessages(kmemory, embeddings, fails, records,
                                                              turns[t].text, JNull, JNull).messages]
                    ELSE [@ EXCEPT !.pc = "done", !.kind = "raise"]]
    /\ UNCHANGED records

\* the provider answers or raises; on an answer, store_text(text) up to the
\* await of its embedder.  The messages were handed to the provider and are
\* not read again.
TurnGenerates(t, po) ==
    LET g == po
    IN  /\ turns[t].pc = "generating"
        /\ turns' = [turns EXCEPT ![t] =
                        IF g.ok
                        THEN [@ EXCEPT !.pc = "storing input", !.messages = <<>>,
                                       !.output = ObjGetDefault(g.result, <<"text">>, JStr(<<>>))]
                        ELSE [@ EXCEPT !.pc = "done", !.messages = <<>>, !.kind = "raise"]]
        /\ UNCHANGED records

\* the embedder answers or raises; store_memory of the input, and when the
\* output is not empty store_text(output_text) up to the await of its embedder
TurnStoresInput(t, f1) ==
    LET s1 == MemoryStoreText(embeddings, f1, records, turns[t].text)
    IN  /\ turns[t].pc = "storing input"
        /\ records' = s1.records
        /\ turns' = [turns EXCEPT ![t] =
                        IF ~s1.ok THEN [@ EXCEPT !.pc = "done", !.kind = "return"]
                        ELSE IF PyTruthy(turns[t].output)
                        THEN [@ EXCEPT !.pc = "storing output", !.ids = Append(@, s1.id)]
                        ELSE [@ EXCEPT !.pc = "done", !.kind = "return", !.ids = Append(@, s1.id)]]

\* the embedder answers or raises; store_memory of the output; return
TurnStoresOutput(t, f2) ==
    LET s2 == MemoryStoreText(embeddings, f2, records, turns[t].output.s)
    IN  /\ turns[t].pc = "storing output"
        /\ records' = s2.records
        /\ turns' = [turns EXCEPT ![t] =
                        [@ EXCEPT !.pc = "done", !.kind = "return",
                                  !.ids = IF s2.ok THEN Append(@, s2.id) ELSE @]]

NextInterleaved ==
    \/ \E t \in TurnIds, text \in UserTexts : TurnBegins(t, text)
    \/ \E t \in TurnIds, fails \in BOOLEAN : TurnRetrieves(t, fails)
    \/ \E t \in TurnIds, po \in ProviderOutcomes : TurnGenerates(t, po)
    \/ \E t \in TurnIds, f1 \in BOOLEAN : TurnStoresInput(t, f1)
    \/ \E t \in TurnIds, f2 \in BOOLEAN : TurnStoresOutput(t, f2)

(***************************************************************************)
(* core/kernel/llm_manager.py: LLMManager                                  *)
(***************************************************************************)
ModelNames == {Word("default"), Word("local"), JStr(<<>>)}

\* the provider argument of load_model, and its lower case
Providers == {"openai", "OpenAI-Chat", "llama"}

Lower(provider) == IF provider = "OpenAI-Chat" THEN "openai-chat" ELSE provider

Supported == {"openai", "openai-chat", "openai_chat"}

\* _build_provider(provider, model): the instance, or the ValueError of an
\* unsupported provider or of OpenAIChatProvider without an API key
BuildProvider(provider, has_key) ==
    IF Lower(provider) \notin Supported
    THEN [ok |-> FALSE, err |-> <<"ValueError", ":", " ", "Unsupported provider: ", provider>>]
    ELSE IF ~has_key
    THEN [ok |-> FALSE,
          err |-> <<"ValueError", ":", " ",
                    "OpenAI API key not provided. Set OPENAI_API_KEY or pass api_key.">>]
    ELSE [ok |-> TRUE, err |-> <<>>]

\* an unload_model that hands the active role to a model that stays loaded
LlmUnloadPassesOn(ms, am, model_name) ==
    IF model_name \in ms
    THEN [models |-> ms \ {model_name},
          active_model |-> IF am = model_name
                           THEN IF ms \ {model_name} = {} THEN JNull
                                ELSE CHOOSE m \in ms \ {model_name} : TRUE
                           ELSE am,
          ret |-> "True", err |-> <<>>]
    ELSE [models |-> ms, active_model |-> am, ret |-> "False", err |-> <<>>]

\* load_model(model_name, provider): [models, active_model, ret, err]
LlmLoad(ms, am, model_name, provider, has_key) ==
    LET b == BuildProvider(provider, has_key)
    IN  IF ~b.ok THEN [models |-> ms, active_model |-> am, ret |-> "raised", err |-> b.err]
        ELSE [models |-> ms \cup {model_name},
              active_model |-> IF am = JNull THEN model_name ELSE am,
              ret |-> "True", err |-> <<>>]

\* unload_model(model_name)
LlmUnload(ms, am, model_name) ==
    IF model_name \in ms
    THEN [models |-> ms \ {model_name},
          active_model |-> IF am = model_name THEN JNull ELSE am,
          ret |-> "True", err |-> <<>>]
    ELSE [models |-> ms, active_model |-> am, ret |-> "False", err |-> <<>>]

\* set_active_model(model_name)
LlmSetActive(ms, am, model_name) ==
    IF model_name \in ms
    THEN [models |-> ms, active_model |-> model_name, ret |-> "True", err |-> <<>>]
    ELSE [models |-> ms, active_model |-> am, ret |-> "False", err |-> <<>>]

\* generate(messages) up to its await: the RuntimeError raised before any
\* provider is called, or the model whose provider it awaits
LlmGenerate(ms, am) ==
    IF ~PyTruthy(am) \/ am \notin ms
    THEN [models |-> ms, active_model |-> am, ret |-> "raised",
          err |-> <<"RuntimeError", ":", " ", "No active model configured in LLMManager.">>,
          awaits |-> JNull]
    ELSE [models |-> ms, active_model |-> am, ret |-> "awaiting", err |-> <<>>, awaits |-> am]

NoLlmOp == [op |-> "none", name |-> JNull, ret |-> "none", err |-> <<>>]

\* LLMManager()
InitLlm ==
    /\ models = {}
    /\ active_model = JNull
    /\ llmOp = NoLlmOp
    /\ awaited = JNull

\* a call that runs to its end without an await
LlmStep(op, name, r) ==
    /\ models' = r.models
    /\ active_model' = r.active_model
    /\ llmOp' = [op |-> op, name |-> name, ret |-> r.ret, err |-> r.err]
    /\ awaited' = awaited

CallLoadModel(model_name, provider, has_key) ==
    LlmStep("load_model", model_name, LlmLoad(models, active_model, model_name, provider, has_key))

CallUnloadModel(model_name) ==
    LlmStep("unload_model", model_name, LlmUnload(models, active_model, model_name))

CallSetActiveModel(model_name) ==
    LlmStep("set_active_model", model_name, LlmSetActive(models, active_model, model_name))

\* await generate(messages), up to the await of the provider; load_model,
\* unload_model and set_active_model run while it is suspended
CallGenerate ==
    LET r == LlmGenerate(models, active_model)
    IN  /\ awaited = JNull
        /\ IF r.ret = "raised"
           THEN LlmStep("generate", JNull, r)
           ELSE /\ awaited' = r.awaits
                /\ UNCHANGED <<models, active_model, llmOp>>

\* the provider answers or raises, and generate returns its result or lets
\* its error through, whatever the active model is by then
GenerateReturns(answers) ==
    /\ awaited # JNull
    /\ awaited' = JNull
    /\ llmOp' = [op |-> "generate", name |-> JNull,
                 ret |-> IF answers THEN "result" ELSE "raised",
                 err |-> IF answers THEN <<>> ELSE <<"TimeoutError">>]
    /\ UNCHANGED <<models, active_model>>

NextLlm ==
    \/ \E n \in ModelNames, p \in Providers, k \in BOOLEAN : CallLoadModel(n, p, k)
    \/ \E n \in ModelNames : CallUnloadModel(n)
    \/ \E n \in ModelNames : CallSetActiveModel(n)
    \/ CallGenerate
    \/ \E a \in BOOLEAN : GenerateReturns(a)

(***************************************************************************)
(* Properties of the memory                                                *)
(***************************************************************************)
Min(a, b) == IF a < b THEN a ELSE b

\* the place of a record id in the order of the stores
Position(id) == CHOOSE i \in 1..Len(insertOrder) : insertOrder[i] = id

Retrieved == memOp.op = "search" /\ memOp.ok

\* C8: retrieve with topK = k returns min(k, number of stored records)
\* records, no record after one of smaller similarity, and records of equal
\* similarity in the order in which they were stored.
C8_RetrieveOrdered ==
    Retrieved =>
        LET res == memOp.results
        IN  /\ Len(res) = Min(memOp.k, Len(records))
            /\ \A i, j \in 1..Len(res) :
                  i < j => /\ ~FloatLt(res[i].similarity, res[j].similarity)
                           /\ FloatEq(res[i].similarity, res[j].similarity)
                                 => Position(res[i].id) < Position(res[j].id)

\* C26: every similarity retrieve returns is a defined number, and it is 0
\* for a record whose vector has norm zero and for every record when the
\* query vector has norm zero.
C26_ZeroNormSimilarityZero ==
    Retrieved =>
        \A i \in 1..Len(memOp.results) :
            LET r == memOp.results[i]
                rec == CHOOSE x \in {records[j] : j \in 1..Len(records)} : x.id = r.id
            IN  /\ ~r.similarity.nan
                /\ (NormSq(rec.vector) = 0 \/ NormSq(memOp.arg) = 0) => r.similarity.num = 0

\* C9: every store returns an id that no earlier store returned, adds exactly
\* one record, and leaves every record stored before as it was.
C9_StoreFreshId ==
    [][(memOp'.op = "store" /\ memOp'.ok /\ memOp' # memOp)
          => /\ memOp'.id \notin issued
             /\ Len(records') = Len(records) + 1
             /\ \A i \in 1..Len(records) :
                   \E j \in 1..Len(records') : records'[j] = records[i]]_vars

\* C10: store_memory of an embedding whose length is not the configured
\* dimension fails, and the stored records and the next id to be assigned
\* are after the call what they were before it.
C10_DimensionMismatchNoChange ==
    [][(memOp'.op = "store" /\ Len(memOp'.arg) # Dim)
          => /\ ~memOp'.ok
             /\ records' = records
             /\ NextId(records') = NextId(records)
             /\ issued' = issued]_vars

\* a store_memory refused for its dimension on a memory that holds records
C10_Witness ==
    /\ memOp.op = "store"
    /\ ~memOp.ok
    /\ Len(memOp.arg) = 3
    /\ Len(records) = 2
    /\ issued = {1, 2}

Stored(recs, id) == \E i \in 1..Len(recs) : recs[i].id = id

\* C11: delete(id) returns true exactly when a record with that id is
\* stored; afterwards no record has that id and every other record is
\* unchanged; delete of an id that is not stored returns false and changes
\* nothing.
C11_DeleteRemovesOne ==
    [][memOp'.op = "delete"
          => LET id == memOp'.id
             IN  /\ memOp'.ok = Stored(records, id)
                 /\ ~Stored(records', id)
                 /\ records' = SelectSeq(records, LAMBDA r : r.id # id)
                 /\ ~Stored(records, id) => records' = records]_vars

\* a record deleted from a memory that keeps two others
C11_Witness ==
    /\ memOp.op = "delete"
    /\ memOp.ok
    /\ memOp.id = 2
    /\ Len(records) = 2
    /\ records[1].id = 1
    /\ records[2].id = 3

(***************************************************************************)
(* Properties of the Memory embedder and of Kernel.process_input           *)
(***************************************************************************)
\* C12: with no embedder configured, store_text and retrieve_memory fail at
\* once with the not-configured error, call no embedder and leave the records
\* as they were.
C12_NotConfigured ==
    [][(kpc = "idle" /\ embeddings = "None"
            /\ kcall'.caller \in {"store_text", "retrieve_memory"})
          => /\ kpc' = "ended"
             /\ kout'.kind = "raise"
             /\ kout'.err = "RuntimeError: Embeddings provider not configured for Memory"
             /\ embedLog' = <<>>
             /\ records' = records]_vars

\* store_text refused on a Memory that holds records and has lost its embedder
C12_Witness ==
    /\ kpc = "ended"
    /\ kcall.caller = "store_text"
    /\ embeddings = "None"
    /\ kout.kind = "raise"
    /\ embedLog = <<>>
    /\ Len(records) = 2

RECURSIVE SnippetLines(_)
\* the lines "- text", one per text, with a newline between two of them
SnippetLines(texts) ==
    IF texts = <<>> THEN <<>>
    ELSE <<"- ">> \o texts[1]
            \o (IF Len(texts) > 1 THEN <<"\n">> ELSE <<>>) \o SnippetLines(Tail(texts))

\* the texts a search of recs with the vector of embedder e for text finds,
\* most similar first, the empty ones left out
FoundTexts(e, recs, text) ==
    IF Len(EmbedVector(e, text)) = Dim
    THEN LET res == Search(recs, EmbedVector(e, text), MemoryTopK)
         IN  SelectSeq([i \in 1..Len(res) |-> res[i].text], LAMBDA t : t # <<>>)
    ELSE <<>>

\* the system prompt when one is given, then the context when one is given
PromptAndContext(c) ==
    (IF c.system_prompt.t = "str" /\ c.system_prompt.s # <<>>
     THEN <<[role |-> "system", content |-> c.system_prompt.s]>> ELSE <<>>)
    \o (IF c.context.t = "list" THEN c.context.l ELSE <<>>)

OfProcessInput(c) == c.caller \in {"direct", "execute"}

\* C13: the messages handed to the model are the system prompt (when one is
\* given), the context messages in their order (when given), at most one
\* system message listing the non-empty snippets the retrieval found, one
\* "- snippet" line each in retrieval order, and last one user message with
\* the input; there is no memory block without a memory in use.
C13_MessageOrder ==
    [][(kpc \in {"idle", "retrieving"} /\ kpc' = "generating" /\ OfProcessInput(kcall'))
          => LET found == IF kpc = "retrieving" /\ ~kcall'.fails
                          THEN FoundTexts(kcall.emb, records, kcall'.text) ELSE <<>>
                 mem == IF found = <<>> THEN <<>>
                        ELSE <<[role |-> "system",
                                content |-> <<"Relevant memory items (most similar first):", "\n">>
                                                \o SnippetLines(found)]>>
             IN  /\ messages' = PromptAndContext(kcall') \o mem
                                   \o <<[role |-> "user", content |-> kcall'.text]>>
                 /\ messages'[Len(messages')].role = "user"
                 /\ kpc = "retrieving" <=> (kmemory = "set" /\ kcall.emb # "None")]_vars

\* system prompt, two context messages, a memory block of one snippet out of
\* two records (the first has an empty text, the second was stored by another
\* caller with store_memory and the zero vector), and the user message
C13_Witness ==
    /\ kpc = "generating"
    /\ Len(messages) = 5
    /\ Len(records) = 2
    /\ records[1].text = <<>>
    /\ records[2].text = <<"ok">>
    /\ records[2].vector = <<0, 0>>
    /\ messages[1].role = "system"
    /\ messages[2].role = "user"
    /\ messages[4] = [role |-> "system",
                      content |-> <<"Relevant memory items (most similar first):", "\n",
                                    "- ", "ok">>]
    /\ messages[5] = [role |-> "user", content |-> kcall.text]

ProcessInputEnded == kpc = "ended" /\ OfProcessInput(kcall)

\* C14: when the call of the model succeeds, process_input returns the text
\* of its result, whether the Kernel has no memory, the memory writes
\* succeed, or one of them fails.
C14_ReturnsModelText ==
    (ProcessInputEnded /\ kcall.po.ok)
        => /\ kout.kind = "return"
           /\ kout.text = IF ObjHas(kcall.po.result, <<"text">>)
                          THEN ObjGet(kcall.po.result, <<"text">>) ELSE JStr(<<>>)

\* the text is returned although the embedder raised in the first store
C14_Witness ==
    /\ ProcessInputEnded
    /\ kcall.po.ok
    /\ kmemory = "set"
    /\ embeddings = "e2"
    /\ kcall.f1
    /\ kout.kind = "return"
    /\ kout.text = Word("stub")

\* C15: when the call of the model fails (no active model when it is made, or
\* an error of the provider), process_input raises that error, execute lets
\* it through, and the turn stores nothing: up to the end of the call of the
\* model none of its steps changes the records or embeds more than the query.
C15_ModelFailurePropagates ==
    [][/\ (kpc \in {"idle", "retrieving"} /\ kpc' = "ended" /\ OfProcessInput(kcall'))
           => /\ ~active
              /\ kout'.kind = "raise"
              /\ kout'.err = "RuntimeError: No active model configured in LLMManager."
       /\ (kpc = "generating" /\ kpc' = "ended" /\ ~kcall'.po.ok)
           => /\ kout'.kind = "raise"
              /\ kout'.err = kcall'.po.err
       /\ (kpc = "ended" /\ pc = "awaiting" /\ pc' # pc /\ kout.kind = "raise")
           => /\ pc' = "failed"
              /\ outcome' = [kind |-> "raise", text |-> <<kout.err>>]
              /\ invoked' = <<>>
              /\ kout' = kout
       /\ (kpc \in {"idle", "retrieving", "generating"} /\ kpc' # kpc /\ OfProcessInput(kcall'))
           => /\ records' = records
              /\ kpc # "generating" => Len(embedLog') <= 1
              /\ kpc' = "ended" => embedLog' = (IF kpc = "idle" THEN <<>> ELSE embedLog)]_vars

\* a turn of execute ended by a time-out of the provider, on a Kernel whose
\* memory holds records, one of them stored by another caller with
\* store_memory
C15_Witness ==
    /\ kpc = "ended"
    /\ kcall.caller = "execute"
    /\ kout.kind = "raise"
    /\ kout.err = "TimeoutError"
    /\ outcome = [kind |-> "raise", text |-> <<"TimeoutError">>]
    /\ kmemory = "set"
    /\ embeddings = "e2"
    /\ Len(records) = 2
    /\ records[2].metadata = "tag"

\* C23: when the memory retrieval of a turn raises, process_input goes on to
\* its call of the model with the messages it would hand over without a
\* memory (system prompt, context, user message; no memory block), and the
\* turn ends as the call of the model ends: the failure of the retrieval is
\* not raised to the caller.
C23_RetrievalFailureSwallowed ==
    /\ [][(kpc = "retrieving" /\ kpc' # kpc /\ (kcall'.fails \/ kcall.emb = "e3"))
            => /\ messages' = PromptAndContext(kcall)
                                 \o <<[role |-> "user", content |-> kcall.text]>>
               /\ IF active THEN kpc' = "generating"
                  ELSE /\ kpc' = "ended"
                       /\ kout'.err = "RuntimeError: No active model configured in LLMManager."]_vars
    /\ [](ProcessInputEnded
            => IF kcall.po.ok THEN kout.kind = "return"
               ELSE /\ kout.kind = "raise"
                    /\ kout.err \in {"TimeoutError",
                                     "RuntimeError: No active model configured in LLMManager."})

\* a turn on a memory with two records whose retrieval failed, and which
\* returned the text of the model
C23_Witness ==
    /\ kpc = "ended"
    /\ kcall.caller = "direct"
    /\ kmemory = "set"
    /\ embeddings = "e2"
    /\ kcall.fails
    /\ Len(records) >= 2
    /\ messages = <<[role |-> "user", content |-> kcall.text]>>
    /\ kout.kind = "return"
    /\ kout.text = Word("stub")

IsMemoryBlock(m) ==
    /\ m.role = "system"
    /\ Len(m.content) >= 2
    /\ m.content[1] = "Relevant memory items (most similar first):"

\* the sequences of up to n different indices of recs
Picks(recs, n) ==
    {p \in UNION {[1..m -> 1..Len(recs)] : m \in 1..n} :
        \A i, j \in 1..Len(p) : i # j => p[i] # p[j]}

\* block lists texts of records of recs, one line each
ListsRecordsOf(block, recs) ==
    \E p \in Picks(recs, MemoryTopK) :
        block.content = <<"Relevant memory items (most similar first):", "\n">>
                            \o SnippetLines([i \in 1..Len(p) |-> recs[p[i]].text])

\* the text the provider answered with, "" when its result has none
AnsweredText(c) ==
    IF ObjHas(c.po.result, <<"text">>) THEN ObjGet(c.po.result, <<"text">>).s ELSE <<>>

\* C24: a turn retrieves (when its memory has an embedder as it begins), then
\* calls the model, then writes, each finished before the next starts: the
\* steps of the turn up to the answer of the model leave the records as they
\* were and embed only the query of the retrieval, the memory block
\* lists records stored when the retrieval ended, and the writes (the input,
\* then the output) come after the answer and leave the messages as they
\* were; a later turn retrieves what an earlier turn wrote.
C24_TurnOrder ==
    /\ [](OfProcessInput(kcall) =>
            /\ kpc = "retrieving" => (embedLog = <<kcall.text>> /\ messages = <<>>)
            /\ kpc = "generating"
                  => embedLog = (IF kcall.emb = "None" THEN <<>> ELSE <<kcall.text>>)
            /\ kpc = "storing input"
                  => embedLog \in {<<kcall.text>>, <<kcall.text, kcall.text>>}
            /\ kpc = "storing output"
                  => embedLog \in {<<kcall.text, AnsweredText(kcall)>>,
                                   <<kcall.text, kcall.text, AnsweredText(kcall)>>})
    /\ [][/\ (kpc \in {"idle", "retrieving", "generating"} /\ kpc' # kpc)
              => records' = records
          /\ (kpc = "retrieving" /\ kpc' # kpc)
              => \A i \in 1..Len(messages') :
                     IsMemoryBlock(messages'[i]) => ListsRecordsOf(messages'[i], records)
          /\ (kpc \in {"generating", "storing input", "storing output"} /\ kpc' # "idle")
              => messages' = messages
          /\ kpc' = "storing input" => kpc \in {"generating", "storing input"}
          /\ kpc' = "storing output" => kpc \in {"storing input", "storing output"}
          /\ (kpc = "storing input" /\ kpc' # kpc)
              => \A i \in 1..Len(records') :
                     (i > Len(records) \/ records'[i] # records[i])
                        => records'[i].text = kcall.text
          /\ (kpc = "storing output" /\ kpc' # kpc)
              => \A i \in 1..Len(records') :
                     (i > Len(records) \/ records'[i] # records[i])
                        => records'[i].text = AnsweredText(kcall)]_vars

\* a turn whose memory block lists the output "stub" of an earlier turn
C24_Witness ==
    /\ kpc = "generating"
    /\ kcall.caller = "direct"
    /\ \E r \in 1..Len(records) : records[r].text = <<"stub">>
    /\ \E i \in 1..Len(messages) :
          /\ IsMemoryBlock(messages[i])
          /\ \E j \in 1..Len(messages[i].content) : messages[i].content[j] = "stub"

\* C22: a turn in which the call of the model succeeds, on a Kernel whose
\* Memory has a working embedder (one is set at each step of the turn, and
\* it does not raise), adds exactly two records to the memory before it
\* returns: first the input text, then the output text.
C22_StoresInputThenOutput ==
    [][/\ (kpc = "generating" /\ kpc' # kpc /\ kcall'.po.ok /\ embeddings # "None")
           => kpc' = "storing input"
       /\ (kpc = "storing input" /\ kpc' # kpc /\ ~kcall'.f1 /\ embeddings # "None")
           => /\ kpc' = "storing output"
              /\ Len(records') = Len(records) + 1
              /\ SubSeq(records', 1, Len(records)) = records
              /\ records'[Len(records')].text = kcall.text
       /\ (kpc = "storing output" /\ kpc' # kpc /\ ~kcall'.f2)
           => /\ kout'.kind = "return"
              /\ Len(records') = Len(records) + 1
              /\ SubSeq(records', 1, Len(records)) = records
              /\ records'[Len(records')].text = kout'.text.s]_vars

(***************************************************************************)
(* Properties of interleaved turns                                         *)
(***************************************************************************)
\* the stores of the turns that returned an id: <<turn, position>>
Stores == {st \in TurnIds \X {1, 2} : st[2] <= Len(turns[st[1]].ids)}

\* the text a turn handed to its first and to its second store_text
StoredText(st) == IF st[2] = 1 THEN turns[st[1]].text ELSE turns[st[1]].output.s

\* C29: with turns of one Kernel and Memory interleaved at their awaits and no
\* record deleted, the successful store_text calls return pairwise distinct
\* ids, each id still names a record holding the text that call stored, the
\* number of records is the number of successful store_text calls (no record
\* precedes the turns), and every step keeps the records it found.
C29_NoLostWrite ==
    /\ [](/\ \A a, b \in Stores : a # b => turns[a[1]].ids[a[2]] # turns[b[1]].ids[b[2]]
          /\ \A st \in Stores :
                \E i \in 1..Len(records) :
                    /\ records[i].id = turns[st[1]].ids[st[2]]
                    /\ records[i].text = StoredText(st)
          /\ Len(records) = Cardinality(Stores))
    /\ [][/\ Len(records') >= Len(records)
          /\ SubSeq(records', 1, Len(records)) = records
          /\ \A t \in TurnIds :
                Len(turns'[t].ids) = Len(turns[t].ids) + 1 => Len(records') = Len(records) + 1]_vars

\* two turns whose stores alternate: each turn stored its input and its output
C29_Witness ==
    /\ turns[1].pc = "done" /\ turns[2].pc = "done"
    /\ turns[1].ids = <<1, 3>> /\ turns[2].ids = <<2, 4>>
    /\ Len(records) = 4

(***************************************************************************)
(* Properties of the LLMManager                                            *)
(***************************************************************************)
NoActiveModelRaised ==
    /\ llmOp.ret = "raised"
    /\ llmOp.err = <<"RuntimeError", ":", " ", "No active model configured in LLMManager.">>

\* C30: after any calls of load_model, unload_model and set_active_model the
\* active model is None or the name of a loaded model; set_active_model of a
\* name that is not loaded returns False and changes nothing; unload_model of
\* the active model leaves active_model None whatever stays loaded; a generate
\* called with active_model None raises the no-active-model RuntimeError and
\* changes nothing (a generate that awaits its provider since before the
\* unload is not such a call); and active_model leaves None only by a
\* load_model or a set_active_model that returns True.
C30_ActiveModel ==
    /\ [](active_model = JNull \/ active_model \in models)
    /\ [][/\ (llmOp'.op = "set_active_model" /\ llmOp'.name \notin models)
              => /\ llmOp'.ret = "False"
                 /\ active_model' = active_model
                 /\ models' = models
          /\ (llmOp'.op = "unload_model" /\ llmOp'.name = active_model /\ active_model # JNull)
              => /\ llmOp'.ret = "True"
                 /\ active_model' = JNull
                 /\ models' = models \ {llmOp'.name}
          /\ (llmOp'.op = "generate" /\ awaited = JNull /\ active_model = JNull)
              => /\ NoActiveModelRaised'
                 /\ active_model' = JNull
                 /\ models' = models
          /\ (active_model = JNull /\ active_model' # JNull)
              => /\ llmOp'.op \in {"load_model", "set_active_model"}
                 /\ llmOp'.ret = "True"
                 /\ active_model' = llmOp'.name]_vars

\* the active model was unloaded while another stays loaded, and generate
\* raised the no-active-model error
C30_Witness ==
    /\ llmOp.op = "generate"
    /\ NoActiveModelRaised
    /\ active_model = JNull
    /\ models # {}

(***************************************************************************)
(* Properties of the time parser and of the events store                   *)
(***************************************************************************)
Contains(text, sub) ==
    \E i \in 0..(Len(text) - Len(sub)) : SubSeq(text, i + 1, i + Len(sub)) = sub

HasAbsolute(text) == Contains(text, <<"2025-10-01", " ", "14:00">>)

OffsetMinutes(text) ==
    IF Contains(text, <<"in", " ", "30", " ", "minutes">>) THEN 30
    ELSE IF Contains(text, <<"in", " ", "2", " ", "hours">>) THEN 120
    ELSE 0

\* t plus n minutes, for a t whose next day is in the same month
PlusMinutes(t, n) ==
    LET total == t.h * 60 + t.mi + n
    IN  [t EXCEPT !.d = @ + (total \div 1440),
                  !.h = (total % 1440) \div 60,
                  !.mi = total % 60]

ParserCalled == schedOp.op = "parse_natural_time"

\* C16: a text with a substring YYYY-MM-DD HH:MM is parsed to exactly that
\* date and time, whatever now is and whatever else the text mentions.
C16_AbsoluteDateTimeWins ==
    (ParserCalled /\ HasAbsolute(schedOp.text))
        => /\ schedOp.kind = "return"
           /\ schedOp.value = DateTime(2025, 10, 1, 14, 0, 0)

\* C17: a text with "in N minutes" or "in N hours" and no absolute date-time
\* is parsed to now plus that duration, the seconds of now kept, also when
\* the text mentions "tomorrow".
C17_RelativeOffset ==
    (ParserCalled /\ ~HasAbsolute(schedOp.text) /\ OffsetMinutes(schedOp.text) > 0)
        => /\ schedOp.kind = "return"
           /\ schedOp.value = PlusMinutes(schedOp.now, OffsetMinutes(schedOp.text))

\* C18: a text with "tomorrow" that rules 1 and 2 do not match is parsed to
\* the day after now's day, seconds zero, at the am/pm hour it mentions
\* (minute 0) and at 09:00 when it mentions no time; "tomorrow at 8AM" with
\* now 2025-01-01T00:00 gives 2025-01-02T08:00.
C18_Tomorrow ==
    (/\ ParserCalled
     /\ Contains(schedOp.text, <<"tomorrow">>)
     /\ ~HasAbsolute(schedOp.text)
     /\ OffsetMinutes(schedOp.text) = 0)
        => /\ schedOp.kind = "return"
           /\ schedOp.value =
                  [schedOp.now EXCEPT !.d = @ + 1,
                                      !.h = IF Contains(schedOp.text, <<"8AM">>) THEN 8 ELSE 9,
                                      !.mi = 0,
                                      !.sec = 0]
           /\ (schedOp.text = <<"tomorrow", " ", "at", " ", "8AM">>
                  /\ schedOp.now = DateTime(2025, 1, 1, 0, 0, 0))
                 => schedOp.value = DateTime(2025, 1, 2, 8, 0, 0)

\* C19: the time parser never raises: it returns a timestamp or none, and
\* none exactly for a text that no rule matches.
C19_ParserTotal ==
    ParserCalled
        => /\ schedOp.kind = "return"
           /\ (schedOp.value = "None") <=> (schedOp.text \in {<<"soon">>, <<>>})

\* the clock time a text of rule 4 or 5 mentions
ClockMention(text) ==
    IF Contains(text, <<"5pm">>) THEN [h |-> 17, mi |-> 0] ELSE [h |-> 14, mi |-> 30]

\* C25: a clock-time mention resolved by rule 4 ("today", "at ") or rule 5
\* (bare am/pm or HH:MM) gives the mentioned hour and minute, seconds zero,
\* today when that is strictly after now and else tomorrow.
C25_ClockTimeRollsForward ==
    (ParserCalled /\ schedOp.text \in {<<"today", " ", "at", " ", "5pm">>, <<"14:30">>})
        => LET c == ClockMention(schedOp.text)
               n == schedOp.now
               today == c.h > n.h \/ (c.h = n.h /\ c.mi > n.mi)
           IN  /\ schedOp.kind = "return"
               /\ schedOp.value = [n EXCEPT !.d = IF today THEN @ ELSE @ + 1,
                                            !.h = c.h, !.mi = c.mi, !.sec = 0]

ToolCalled == schedOp.op = "tool_add_event"

\* C27: the tool add_event given a time phrase the parser cannot resolve
\* stores no event, and the turn that dispatched it returns a text starting
\* with "Tool 'add_event' failed:" instead of raising.
C27_UnparsedPhraseReported ==
    (ToolCalled /\ schedOp.text \in {<<"soon">>, <<>>})
        => /\ events = <<>>
           /\ schedOp.kind = "return"
           /\ SubSeq(schedOp.value, 1, 7)
                  = <<"Tool", " ", "'", "add_event", "'", " ", "failed:">>

\* C28: the tool add_event given a time phrase that parses stores the event
\* and returns "event_id=<id>" with the id of the stored event, with or
\* without a running event loop and whatever becomes of the memory note.
C28_EventStoredBeforeNote ==
    (ToolCalled /\ schedOp.text \notin {<<"soon">>, <<>>})
        => /\ schedOp.kind = "return"
           /\ events # <<>>
           /\ events[Len(events)].title = schedOp.title
           /\ schedOp.value = <<"event_id=", events[Len(events)].id>>

TsBefore(a, b) ==
    LET ka == <<a.y, a.mo, a.d, a.h, a.mi>>
        kb == <<b.y, b.mo, b.d, b.h, b.mi>>
    IN  \E i \in 1..5 : ka[i] < kb[i] /\ \A j \in 1..(i - 1) : ka[j] = kb[j]

\* a listing of the stored rows, ascending by timestamp
IsListingOf(listing, rows) ==
    /\ Len(listing) = Len(rows)
    /\ {listing[i] : i \in 1..Len(listing)} = {rows[i] : i \in 1..Len(rows)}
    /\ \A i \in 1..(Len(listing) - 1) : ~TsBefore(listing[i + 1].when_ts, listing[i].when_ts)

RowIds(rows) == {rows[i].id : i \in 1..Len(rows)}

\* C20: add_event with a text the parser accepts stores one more event,
\* list_events returns the stored events ordered by timestamp ascending,
\* and remove_event(id) returns true exactly when an event with that id is
\* stored and removes that event only.
C20_EventsStore ==
    /\ [](schedOp.op = "list_events"
             => schedOp.kind = "return" /\ IsListingOf(schedOp.value, events))
    /\ [][/\ (schedOp'.op = "add_event" /\ schedOp'.text \notin {<<"soon">>, <<>>})
             => /\ schedOp'.kind = "return"
                /\ Len(events') = Len(events) + 1
                /\ events'[Len(events')].title = schedOp'.title
          /\ schedOp'.op = "remove_event"
             => /\ schedOp'.kind = "return"
                /\ schedOp'.value = (schedOp'.id \in RowIds(events))
                /\ RowIds(events') = RowIds(events) \ {schedOp'.id}]_vars

(***************************************************************************)
(* Specifications                                                          *)
(***************************************************************************)
Init == InitAgent /\ InitMemory /\ KernelAtRest /\ InitScheduler /\ InitInterleaved /\ InitLlm

SpecAgent ==
    Init /\ [][NextAgent /\ UNCHANGED memVars /\ UNCHANGED kernelVars /\ UNCHANGED schedVars
            /\ UNCHANGED turns /\ UNCHANGED llmVars]_vars

SpecMemory ==
    Init /\ [][NextMemory /\ UNCHANGED agentVars /\ UNCHANGED kernelVars /\ UNCHANGED schedVars
            /\ UNCHANGED turns /\ UNCHANGED llmVars]_vars

InitWithKernel ==
    InitAgent /\ InitMemory /\ InitKernel /\ InitScheduler /\ InitInterleaved /\ InitLlm

SpecKernel ==
    /\ InitWithKernel
    /\ [][/\ NextKernel
          /\ UNCHANGED <<tools, regLog, sent, insertOrder, issued, memOp>>
          /\ UNCHANGED schedVars
          /\ UNCHANGED turns /\ UNCHANGED llmVars]_vars

InitWithTurns ==
    InitAgent /\ InitMemory /\ InitTurns /\ InitScheduler /\ InitInterleaved /\ InitLlm

SpecTurns ==
    /\ InitWithTurns
    /\ [][/\ NextTurns
          /\ UNCHANGED <<tools, regLog, sent, insertOrder, issued, memOp>>
          /\ UNCHANGED schedVars
          /\ UNCHANGED turns /\ UNCHANGED llmVars]_vars

SpecScheduler ==
    Init /\ [][/\ NextScheduler
               /\ UNCHANGED agentVars /\ UNCHANGED memVars /\ UNCHANGED kernelVars
               /\ UNCHANGED turns /\ UNCHANGED llmVars]_vars

SpecInterleaved ==
    /\ InitWithTurns
    /\ [][/\ NextInterleaved
          /\ UNCHANGED agentVars
          /\ UNCHANGED <<insertOrder, issued, memOp>>
          /\ UNCHANGED kernelVars
          /\ UNCHANGED schedVars
          /\ UNCHANGED llmVars]_vars

SpecLlm ==
    Init /\ [][/\ NextLlm
               /\ UNCHANGED agentVars /\ UNCHANGED memVars /\ UNCHANGED kernelVars
               /\ UNCHANGED schedVars /\ UNCHANGED turns]_vars

=============================================================================
